---- MODULE Spec2Model ----
(***************************************************************************)
(* A model of ez-oauth: RFC 9728 protected resource discovery              *)
(* (OAuthDiscovery.getProtectedResourceDiscovery and its helpers) and the  *)
(* authorization-code flow of OAuthClient over a StorageProvider.          *)
(*                                                                         *)
(* Strings that the code takes apart (URLs, identifiers, error messages)   *)
(* are sequences of tokens, "/" being a token of its own; JSON values are  *)
(* tagged records; JSON objects are functions from the names of the        *)
(* fields that are present.                                                *)
(***************************************************************************)
EXTENDS Integers, Sequences, FiniteSets, TLC

VARIABLES
    dpc,        \* discovery: "idle" before the call, "done" after it
    issuerArg,  \* the caller's issuer argument (a string or a URL object)
    pathArg,    \* the caller's resourcePath argument (<<>>: not given)
    optsArg,    \* the caller's options.jwt (NoJwt: not given)
    response,   \* the HTTP response the server answered the request with
    issuerNow,  \* the caller's issuer object as the call left it
    reqUrl,     \* the URL the request was sent to
    reqId,      \* requestResourceId as the call computed it
    outcome,    \* what the call returned or threw
    provider,   \* flow: the StorageProvider the application uses ("none": none)
    appConfig,  \* the OAuthConfig the application built for its attempts
    store,      \* what the storage backend holds: key -> text
    pending,    \* save calls of an asynchronous provider still in flight
    rejected,   \* keys of save calls that ended in a rejection
    clients,    \* the OAuthClient objects, by slot
    urls,       \* the flow states whose authorization URL was returned
    exchanges,  \* calls of the grant capability so far, by flow state
    rand,       \* draws from the random source so far
    last,       \* the last operation: its arguments and its result
    fs,         \* an OAuthState object a caller builds and uses on its own
    serverNow,  \* what the resource server answers a metadata request with now
    cache,      \* OAuthConfig.cache: issuer.toString() -> what was stored
    backends    \* a MemoryStorageProvider and a RedisStorageProvider side by side

fvars == <<provider, appConfig, store, pending, rejected, clients, urls, exchanges, rand, last>>

dvars == <<dpc, issuerArg, issuerNow, pathArg, optsArg, response, reqUrl, reqId, outcome,
          serverNow, cache>>

----------------------------------------------------------------------------
(* Bounds *)

\* longest authorization_servers list a metadata document carries
MaxServers == 2

\* OAuthClient objects alive at a time
MaxClients == 1

\* flow states the random source hands out in a run
MaxStates == 2

\* calls of the grant capability in a run
MaxExchanges == 2

----------------------------------------------------------------------------
(* JSON values *)

Str(s) == [t |-> "string", v |-> s]
Arr(a) == [t |-> "array", v |-> a]

IsString(x) == x.t = "string"
IsArray(x) == x.t = "array"
\* JavaScript truthiness of a JSON value: only the empty string is falsy here
Truthy(x) == ~(x.t = "string" /\ x.v = <<>>)

Has(obj, f) == f \in DOMAIN obj
EmptyObj == [f \in {} |-> Str(<<>>)]

\* { ...a, ...b }: the fields of b win
Spread(a, b) == [f \in (DOMAIN a) \cup (DOMAIN b) |-> IF f \in DOMAIN b THEN b[f] ELSE a[f]]
\* const { [drop]: _, ...rest } = obj
Rest(obj, drop) == [f \in (DOMAIN obj) \ {drop} |-> obj[f]]

----------------------------------------------------------------------------
(* URLs *)

PROTECTED_RESOURCE_DISCOVERY_JWT_MEDIA_TYPE == "application/oauth-protected-resource-jwt"
PROTECTED_RESOURCE_DISCOVERY_JSON_MEDIA_TYPE == "application/oauth-protected-resource+json"

ResourceOrigin == "https://resource.example.com"

\* new URL(str): the origin is the first token, the pathname is what follows,
\* "/" when nothing follows
ParseURL(str) == [origin |-> Head(str),
                  pathname |-> IF Tail(str) = <<>> THEN <<"/">> ELSE Tail(str)]

\* toURL(url): a URL object is returned as it is (the same object), a string
\* is parsed into a new one
toURL(url) == IF url.kind = "URL" THEN url.url ELSE ParseURL(url.str)

\* URL.toString()
Href(u) == <<u.origin>> \o u.pathname

\* the pathname setter: the value gets its leading "/"
SetPathname(u, path) == [u EXCEPT !.pathname = <<"/">> \o path]

WellKnownPath(resourcePath) ==
    IF resourcePath # <<>>
    THEN <<".well-known", "/", "oauth-protected-resource", "/">> \o resourcePath
    ELSE <<".well-known", "/", "oauth-protected-resource">>

\* a variant that leaves a trailing slash where it is
StripTrailingSlash_Keep(s) == s

\* str.replace(/\/$/, "")
StripTrailingSlash(s) ==
    IF s # <<>> /\ s[Len(s)] = "/" THEN SubSeq(s, 1, Len(s) - 1) ELSE s

requestResourceIdFromIssuer(issuer, resourcePath) ==
    LET u == toURL(issuer)
        id == StripTrailingSlash(<<u.origin>> \o u.pathname)
    IN  IF resourcePath # <<>>
        THEN IF id # <<>> THEN id \o <<"/">> \o resourcePath
                          ELSE <<u.origin, "/">> \o resourcePath
        ELSE id

----------------------------------------------------------------------------
(* Results of a call *)

Value(v) == [kind |-> "value", value |-> v]
Null == [kind |-> "null"]
Throw(e) == [kind |-> "throw", error |-> e]

Error(name, message) == [name |-> name, message |-> message]

\* e.message.startsWith("Verification required")
StartsWithVerificationRequired(e) ==
    e.message # <<>> /\ Head(e.message) = "Verification required"

VerificationRequiredJwt ==
    Error("Error", <<"Verification required", " for ", PROTECTED_RESOURCE_DISCOVERY_JWT_MEDIA_TYPE>>)
VerificationRequiredSignedMetadata ==
    Error("Error", <<"Verification required", " for ", "signed_metadata">>)
\* a variant whose message does not name the URL
InvalidDiscovery_Unnamed(url) ==
    Error("Error", <<"Invalid protected resource discovery: ">>)
InvalidDiscovery(url) ==
    Error("Error", <<"Invalid protected resource discovery: ">> \o url)

----------------------------------------------------------------------------
(* jose: tokens, keys, verification *)

Keys == {"k1", "k2"}

MalformedJwt == [t |-> "jwt", wellFormed |-> FALSE, signer |-> "k2", payload |-> EmptyObj]
Jwt(signer, payload) == [t |-> "jwt", wellFormed |-> TRUE, signer |-> signer, payload |-> payload]

\* decodeJwt(jwt): the payload, unverified
decodeJwt(jwt) ==
    IF jwt.wellFormed THEN Value(jwt.payload)
    ELSE Throw(Error("JWTInvalid", <<"Invalid JWT">>))

\* jwtVerify(jwt, key) with one key
jwtVerifyKey(jwt, key) ==
    IF ~jwt.wellFormed THEN Throw(Error("JWSInvalid", <<"Invalid Compact JWS">>))
    ELSE IF jwt.signer # key
         THEN Throw(Error("JWSSignatureVerificationFailed", <<"signature verification failed">>))
         ELSE Value(jwt.payload)

\* jwtVerify(jwt, getKey) with createLocalJWKSet / createRemoteJWKSet
jwtVerifyJwks(jwt, jwks) ==
    IF ~jwt.wellFormed THEN Throw(Error("JWSInvalid", <<"Invalid Compact JWS">>))
    ELSE IF jwks.t = "uri" /\ ~jwks.reachable
         THEN Throw(Error("JWKSTimeout", <<"request timed out">>))
         ELSE IF jwt.signer \notin jwks.keys
              THEN Throw(Error("JWKSNoMatchingKey", <<"no applicable key found in the JSON Web Key Set">>))
              ELSE Value(jwt.payload)

NoJwt == [kind |-> "none"]
JwksLocal == [kind |-> "jwks", jwks |-> [t |-> "keys", reachable |-> TRUE, keys |-> {"k1"}]]
JwksRemoteDown == [kind |-> "jwks", jwks |-> [t |-> "uri", reachable |-> FALSE, keys |-> {"k1"}]]
\* getKey(issuer): the key of a known issuer, a rejection for an unknown one
GetKeyPolicy == [kind |-> "getKey", keyOf |-> [i \in {"iss1", "iss2"} |-> IF i = "iss1" THEN "k1" ELSE "reject"]]
JwtOptions == {NoJwt, JwksLocal, JwksRemoteDown, GetKeyPolicy}

----------------------------------------------------------------------------
(* Signed metadata *)

IsStringField(obj, f) == Has(obj, f) /\ IsString(obj[f])
IsArrayField(obj, f) == Has(obj, f) /\ IsArray(obj[f])
TruthyField(obj, f) == Has(obj, f) /\ Truthy(obj[f])

\* a variant that keeps only the first authorization server
payloadToResult_FirstServerOnly(payload) ==
    IF \/ ~IsStringField(payload, "resource")
       \/ ~IsArrayField(payload, "authorization_servers")
       \/ Len(payload.authorization_servers.v) = 0
    THEN Null
    ELSE Value(
        [f \in {"resource", "authorization_servers", "bearer_methods_supported",
                "resource_documentation"}
          |-> CASE f = "resource" -> payload.resource
                [] f = "authorization_servers" ->
                     Arr(SubSeq(payload.authorization_servers.v, 1, 1))
                [] f = "bearer_methods_supported" -> Arr(<<"header">>)
                [] OTHER -> Str(<<>>)])

\* a variant without the check of the length of authorization_servers
payloadToResult_NoLengthCheck(payload) ==
    IF \/ ~IsStringField(payload, "resource")
       \/ ~IsArrayField(payload, "authorization_servers")
    THEN Null
    ELSE Value(
        [f \in {"resource", "authorization_servers", "bearer_methods_supported",
                "resource_documentation"}
          |-> CASE f = "resource" -> payload.resource
                [] f = "authorization_servers" -> payload.authorization_servers
                [] f = "bearer_methods_supported" -> Arr(<<"header">>)
                [] OTHER -> Str(<<>>)])

payloadToResult(payload) ==
    IF \/ ~IsStringField(payload, "resource")
       \/ ~IsArrayField(payload, "authorization_servers")
       \/ Len(payload.authorization_servers.v) = 0
    THEN Null
    ELSE Value(
        [f \in {"resource", "authorization_servers", "bearer_methods_supported",
                "resource_documentation"}
                \cup (IF TruthyField(payload, "resource_endpoints")
                      THEN {"resource_endpoints"} ELSE {})
                \cup (IF TruthyField(payload, "resource_signing_alg_values_supported")
                      THEN {"resource_signing_alg_values_supported"} ELSE {})
          |-> CASE f = "resource" -> payload.resource
                [] f = "authorization_servers" -> payload.authorization_servers
                [] f = "bearer_methods_supported" ->
                     IF IsArrayField(payload, "bearer_methods_supported")
                        /\ Len(payload.bearer_methods_supported.v) > 0
                     THEN payload.bearer_methods_supported
                     ELSE Arr(<<"header">>)
                [] f = "resource_documentation" ->
                     IF IsStringField(payload, "resource_documentation")
                     THEN payload.resource_documentation
                     ELSE Str(<<>>)
                [] OTHER -> payload[f]])

\* a variant that decodes the token and trusts it without verifying
VerifiedPayload_DecodeOnly(jwt, options) ==
    IF options.kind = "getKey" /\ jwt.wellFormed /\ ~IsStringField(jwt.payload, "iss")
    THEN Null
    ELSE decodeJwt(jwt)

\* a variant that falls back to the decoded payload when verification fails
VerifiedPayload_UnverifiedFallback(jwt, options) ==
    IF options.kind = "getKey"
    THEN LET unverified == decodeJwt(jwt) IN
         IF unverified.kind = "throw" THEN unverified
         ELSE IF ~IsStringField(unverified.value, "iss") THEN Null
         ELSE LET key == options.keyOf[unverified.value.iss.v[1]] IN
              IF key = "reject" \/ jwtVerifyKey(jwt, key).kind = "throw"
              THEN unverified
              ELSE jwtVerifyKey(jwt, key)
    ELSE jwtVerifyJwks(jwt, options.jwks)

\* the part of verifySignedMetadata up to the verified payload
VerifiedPayload(jwt, options) ==
    IF options.kind = "getKey"
    THEN LET unverified == decodeJwt(jwt) IN
         IF unverified.kind = "throw" THEN unverified
         ELSE IF ~IsStringField(unverified.value, "iss") THEN Null
         ELSE LET key == options.keyOf[unverified.value.iss.v[1]] IN
              IF key = "reject"
              THEN Throw(Error("Error", <<"unknown issuer">>))
              ELSE jwtVerifyKey(jwt, key)
    ELSE jwtVerifyJwks(jwt, options.jwks)

\* a variant without the comparison of resource and requestResourceId
verifySignedMetadata_NoBinding(jwt, options, requestResourceId) ==
    LET verified == VerifiedPayload(jwt, options) IN
    IF verified.kind # "value" THEN verified
    ELSE payloadToResult(verified.value)

verifySignedMetadata(jwt, options, requestResourceId) ==
    LET verified == VerifiedPayload(jwt, options) IN
    IF verified.kind # "value" THEN verified
    ELSE LET result == payloadToResult(verified.value) IN
         IF result.kind = "null" \/ result.value.resource.v # requestResourceId
         THEN Null
         ELSE result

----------------------------------------------------------------------------
(* getProtectedResourceDiscovery *)

JwtContentType == <<PROTECTED_RESOURCE_DISCOVERY_JWT_MEDIA_TYPE>>
JsonContentType == <<PROTECTED_RESOURCE_DISCOVERY_JSON_MEDIA_TYPE, "; charset=utf-8">>

\* contentType.includes(PROTECTED_RESOURCE_DISCOVERY_JWT_MEDIA_TYPE)
IncludesJwtMediaType(contentType) ==
    \E i \in 1..Len(contentType) : contentType[i] = PROTECTED_RESOURCE_DISCOVERY_JWT_MEDIA_TYPE

\* A body is a text: one that parses as JSON (to json), a compact JWS (jwt), or
\* neither.
JsonBody(j) == [kind |-> "json", json |-> j]
JwtBody(j) == [kind |-> "jwt", jwt |-> j]
GarbageBody == [kind |-> "garbage"]

JsonNull == [t |-> "null"]
JsonObject(o) == [t |-> "object", o |-> o]

\* res.text(), read as a JWT
BodyAsJwt(body) == IF body.kind = "jwt" THEN body.jwt ELSE MalformedJwt

\* res.json()
BodyAsJson(body) ==
    IF body.kind = "json" THEN Value(body.json)
    ELSE Throw(Error("SyntaxError", <<"Failed to parse JSON">>))

\* a variant of the try block that normalises the plain document as it does
\* a signed payload
DiscoveryTryBlock_Normalised(res, options, requestResourceId) ==
    LET parsed == BodyAsJson(res.body) IN
    IF parsed.kind = "throw" THEN parsed
    ELSE IF parsed.value.t = "null"
         THEN Throw(Error("TypeError", <<"null is not an object">>))
    ELSE LET json == IF parsed.value.t = "object" THEN parsed.value.o ELSE EmptyObj IN
         IF TruthyField(json, "signed_metadata")
         THEN IF options.kind = "none"
              THEN Throw(VerificationRequiredSignedMetadata)
              ELSE LET merged == verifySignedMetadata(json.signed_metadata, options,
                                                      requestResourceId) IN
                   IF merged.kind = "throw" THEN merged
                   ELSE IF merged.kind = "value"
                        THEN Value(Spread(Rest(json, "signed_metadata"), merged.value))
                        ELSE Null
         ELSE payloadToResult(json)

\* the body of the try block, lines 239-271
DiscoveryTryBlock(res, options, requestResourceId) ==
    LET parsed == BodyAsJson(res.body) IN
    IF parsed.kind = "throw" THEN parsed
    ELSE IF parsed.value.t = "null"
         THEN Throw(Error("TypeError", <<"null is not an object">>))
    ELSE LET json == IF parsed.value.t = "object" THEN parsed.value.o ELSE EmptyObj IN
         IF TruthyField(json, "signed_metadata")
         THEN IF options.kind = "none"
              THEN Throw(VerificationRequiredSignedMetadata)
              ELSE LET merged == verifySignedMetadata(json.signed_metadata, options,
                                                      requestResourceId) IN
                   IF merged.kind = "throw" THEN merged
                   ELSE IF merged.kind = "value"
                        THEN Value(Spread(Rest(json, "signed_metadata"), merged.value))
                        ELSE Null
         ELSE IF \/ ~IsStringField(json, "resource")
                 \/ ~IsArrayField(json, "authorization_servers")
                 \/ Len(json.authorization_servers.v) = 0
              THEN Null
              ELSE Value(json)

\* a variant that turns every error into the malformed-document error
DiscoveryCatch_AlwaysInvalid(e, res) == Throw(InvalidDiscovery(res.url))

\* the catch block, lines 272-277
DiscoveryCatch(e, res) ==
    IF StartsWithVerificationRequired(e) THEN Throw(e)
    ELSE Throw(InvalidDiscovery(res.url))

\* the caller's issuer after `base.pathname = path`: toURL hands a URL object
\* back as it is, so the assignment changes the caller's object
IssuerAfterRequest(issuer, resourcePath) ==
    IF issuer.kind = "URL"
    THEN [issuer EXCEPT !.url = SetPathname(issuer.url, WellKnownPath(resourcePath))]
    ELSE issuer

RequestUrl(issuer, resourcePath) ==
    Href(SetPathname(toURL(issuer), WellKnownPath(resourcePath)))

\* requestResourceId is computed after the pathname assignment (line 212)
RequestResourceId(issuer, resourcePath) ==
    requestResourceIdFromIssuer(IssuerAfterRequest(issuer, resourcePath), resourcePath)

\* ky.get(url, {headers}) with ky's defaults (throwHttpErrors is not turned
\* off): the promise resolves with a 2xx response and rejects with an
\* HTTPError for any other status
kyGet(res) ==
    IF res.ok THEN Value(res)
    ELSE Throw(Error("HTTPError", <<"Request failed with status code ">>))

getProtectedResourceDiscovery(issuer, resourcePath, options, httpResponse) ==
    LET requestResourceId == RequestResourceId(issuer, resourcePath)
        got == kyGet(httpResponse)
    IN  IF got.kind = "throw" THEN got
        ELSE LET res == got.value IN
             IF ~res.ok THEN Null
             ELSE IF IncludesJwtMediaType(res.contentType)
                  THEN IF options.kind = "none"
                       THEN Throw(VerificationRequiredJwt)
                       ELSE verifySignedMetadata(BodyAsJwt(res.body), options,
                                                 requestResourceId)
                  ELSE LET r == DiscoveryTryBlock(res, options, requestResourceId) IN
                       IF r.kind = "throw" THEN DiscoveryCatch(r.error, res) ELSE r

----------------------------------------------------------------------------
(* The inputs of a discovery call *)

ApiPath == <<"api">>

Issuers ==
    { [kind |-> "string", str |-> <<ResourceOrigin>>],
      [kind |-> "URL", url |-> [origin |-> ResourceOrigin, pathname |-> <<"/">>]] }

ResourcePaths == {<<>>, ApiPath}

\* the identifiers a metadata document names as its resource
ResourceClaims == {Str(<<ResourceOrigin>>), Str(<<ResourceOrigin, "/">> \o ApiPath)}

PlainServerNames ==
    <<"https://plain-as1.example.com", "https://plain-as2.example.com",
      "https://plain-as3.example.com", "https://plain-as4.example.com">>
SignedServerNames ==
    <<"https://as1.example.com", "https://as2.example.com",
      "https://as3.example.com", "https://as4.example.com">>

ServerLists(names) == {Arr(SubSeq(names, 1, n)) : n \in 0..MaxServers}

Field(f, v) == f :> v

\* what a document says besides resource and authorization_servers; src tells
\* the plain document's values from the signed payload's
OptionalParts(src) ==
    { EmptyObj,
      Field("bearer_methods_supported", Arr(<<src, "body">>)),
      Field("bearer_methods_supported", Arr(<<>>)),
      Field("resource_documentation", Str(<<src, "/docs">>))
          @@ Field("resource_endpoints", Arr(<<src, "/ep">>)),
      Field("bearer_methods_supported", Arr(<<src, "body">>))
          @@ Field("resource_documentation", Str(<<src, "/docs">>))
          @@ Field("resource_endpoints", Arr(<<src, "/ep">>))
          @@ Field("resource_signing_alg_values_supported", Arr(<<src, "ES256">>)) }

RequiredParts(names) ==
    { r @@ a : r \in {EmptyObj} \cup {Field("resource", c) : c \in ResourceClaims},
               a \in {EmptyObj} \cup {Field("authorization_servers", l) : l \in ServerLists(names)} }

IssClaims == {EmptyObj, Field("iss", Str(<<"iss1">>)), Field("iss", Str(<<"iss2">>))}

SignedPayloads ==
    { r @@ o @@ i : r \in RequiredParts(SignedServerNames), o \in OptionalParts("signed"),
                    i \in IssClaims }

Jwts == {MalformedJwt} \cup {Jwt(k, p) : k \in Keys, p \in SignedPayloads}

\* plain documents without signed metadata: no signed_metadata member, or an
\* empty one
PlainDocuments ==
    { r @@ o @@ s : r \in RequiredParts(PlainServerNames), o \in OptionalParts("plain"),
                    s \in {EmptyObj, Field("signed_metadata", Str(<<>>))} }

\* plain documents that carry signed metadata
SignedDocuments ==
    { Field("resource", c) @@ Field("authorization_servers", Arr(SubSeq(PlainServerNames, 1, 1)))
        @@ o @@ Field("signed_metadata", j) :
        c \in ResourceClaims, o \in OptionalParts("plain"), j \in Jwts }
    \cup { Field("resource", Str(<<ResourceOrigin>>)) @@ Field("authorization_servers", Arr(<<>>))
               @@ Field("signed_metadata", j) : j \in Jwts }

Bodies ==
    {GarbageBody, JsonBody(JsonNull)}
        \cup {JsonBody(JsonObject(d)) : d \in PlainDocuments \cup SignedDocuments}
        \cup {JwtBody(j) : j \in Jwts}

Responses(url) ==
    { [ok |-> TRUE, contentType |-> JwtContentType, body |-> b, url |-> url] :
          b \in {GarbageBody} \cup {JwtBody(j) : j \in Jwts} }
    \cup { [ok |-> TRUE, contentType |-> JsonContentType, body |-> b, url |-> url] :
          b \in {GarbageBody, JsonBody(JsonNull), JwtBody(MalformedJwt)}
                \cup {JsonBody(JsonObject(d)) : d \in PlainDocuments \cup SignedDocuments} }
    \cup { [ok |-> o, contentType |-> ct, body |-> b, url |-> url] :
          o \in BOOLEAN, ct \in {<<>>, JsonContentType, JwtContentType},
          b \in { GarbageBody,
                  JsonBody(JsonObject(Field("resource", Str(<<ResourceOrigin>>))
                      @@ Field("authorization_servers", Arr(SubSeq(PlainServerNames, 1, 1))))),
                  JwtBody(Jwt("k1", Field("resource", Str(<<ResourceOrigin>>))
                      @@ Field("authorization_servers", Arr(SubSeq(SignedServerNames, 1, 1)))
                      @@ Field("iss", Str(<<"iss1">>)))) } }

\* what a server has to say: a status, a content type and a body
Answer(ok, contentType, body) == [ok |-> ok, contentType |-> contentType, body |-> body]

\* a server that has no metadata document
NoAnswer == Answer(FALSE, <<>>, GarbageBody)

\* the response to a request sent to url
ResponseTo(url, answer) ==
    [ok |-> answer.ok, contentType |-> answer.contentType, body |-> answer.body, url |-> url]

\* new LRUCache(...), nothing stored
EmptyCache == [k \in {} |-> JsonNull]

----------------------------------------------------------------------------
(* The discovery call as a step *)

\* one call: the request goes out, the server answers, the answer is handled
CallDiscovery ==
    /\ dpc = "idle"
    /\ \E res \in Responses(RequestUrl(issuerArg, pathArg)) :
          /\ response' = res
          /\ outcome' = getProtectedResourceDiscovery(issuerArg, pathArg, optsArg, res)
    /\ reqUrl' = RequestUrl(issuerArg, pathArg)
    /\ reqId' = RequestResourceId(issuerArg, pathArg)
    /\ issuerNow' = IssuerAfterRequest(issuerArg, pathArg)
    /\ dpc' = "done"
    /\ UNCHANGED <<issuerArg, pathArg, optsArg, serverNow, cache, fvars, fs, backends>>

DiscoveryNext == CallDiscovery


----------------------------------------------------------------------------
(* Discovery: what the claims speak of *)

MetadataFields ==
    {"resource", "authorization_servers", "bearer_methods_supported",
     "resource_documentation", "resource_endpoints",
     "resource_signing_alg_values_supported"}

DiscoveryDone == dpc = "done"

\* a 2xx response handled as a JSON document
PlainJsonResponse ==
    /\ response.ok
    /\ ~IncludesJwtMediaType(response.contentType)
    /\ response.body.kind = "json"
    /\ response.body.json.t = "object"

PlainDoc == response.body.json.o

\* the document carries a signed_metadata claim, a JWT
CarriesSignedMetadata(doc) == Has(doc, "signed_metadata") /\ doc.signed_metadata.t = "jwt"

\* a 2xx response whose whole body is to be read as a JWT
JwtResponse == response.ok /\ IncludesJwtMediaType(response.contentType)

\* a 2xx response that carries signed metadata, on either path
SignedResponse == JwtResponse \/ (PlainJsonResponse /\ CarriesSignedMetadata(PlainDoc))

\* the JWT of a signed response
SignedJwt == IF JwtResponse THEN BodyAsJwt(response.body) ELSE PlainDoc.signed_metadata

\* the key the policy resolves for the token, "none" when it resolves none
ResolvedKey(jwt, options) ==
    IF options.kind = "jwks"
    THEN IF options.jwks.reachable /\ jwt.signer \in options.jwks.keys THEN jwt.signer ELSE "none"
    ELSE IF options.kind = "getKey" /\ IsStringField(jwt.payload, "iss")
              /\ options.keyOf[jwt.payload.iss.v[1]] # "reject"
         THEN options.keyOf[jwt.payload.iss.v[1]]
         ELSE "none"

\* the token is a well-formed JWT whose signature the resolved key verifies
SignatureVerifies(jwt, options) ==
    jwt.wellFormed /\ ResolvedKey(jwt, options) # "none" /\ ResolvedKey(jwt, options) = jwt.signer

IsVerificationRequired(o) ==
    o.kind = "throw" /\ o.error.message # <<>> /\ Head(o.error.message) = "Verification required"

IsInvalidDiscovery(o) ==
    o.kind = "throw" /\ o.error.message # <<>>
        /\ Head(o.error.message) = "Invalid protected resource discovery: "

\* the error kinds verification fails with
VerificationErrorNames ==
    {"JWTInvalid", "JWSInvalid", "JWSSignatureVerificationFailed", "JWKSTimeout",
     "JWKSNoMatchingKey"}

(* C1: for a 2xx plain JSON response without signed_metadata whose resource
   differs from requestResourceId, the call returns null. *)
C1_PlainBinding ==
    (/\ DiscoveryDone
     /\ PlainJsonResponse
     /\ ~Has(PlainDoc, "signed_metadata")
     /\ IsStringField(PlainDoc, "resource")
     /\ PlainDoc.resource.v # reqId)
    => outcome.kind = "null"

(* C2: for a signed response whose signature verifies and whose verified
   resource claim differs from requestResourceId, the call returns null:
   neither the plain fields nor a merge of plain and signed fields. *)
C2_SignedBinding ==
    (/\ DiscoveryDone
     /\ SignedResponse
     /\ optsArg.kind # "none"
     /\ SignatureVerifies(SignedJwt, optsArg)
     /\ IsStringField(SignedJwt.payload, "resource")
     /\ SignedJwt.payload.resource.v # reqId)
    => outcome.kind = "null"

\* reached: signed_metadata verifies and names another resource, while the
\* plain document around it names the requested one; the call returned null
C2_Witness ==
    /\ DiscoveryDone
    /\ PlainJsonResponse
    /\ CarriesSignedMetadata(PlainDoc)
    /\ SignatureVerifies(SignedJwt, optsArg)
    /\ IsArrayField(SignedJwt.payload, "authorization_servers")
    /\ Len(SignedJwt.payload.authorization_servers.v) > 0
    /\ IsStringField(SignedJwt.payload, "resource")
    /\ SignedJwt.payload.resource.v # reqId
    /\ PlainDoc.resource.v = reqId
    /\ outcome.kind = "null"

(* C3: a 2xx response that carries signed metadata, handled without a
   verification policy, fails with a "Verification required" error: it returns
   neither claims nor null, and the error is not the malformed-document one. *)
C3_MandatoryVerification ==
    (DiscoveryDone /\ SignedResponse /\ optsArg.kind = "none")
    => (IsVerificationRequired(outcome) /\ ~IsInvalidDiscovery(outcome))

\* reached: a JSON document with signed_metadata, no policy, and the
\* "Verification required" error came out of the try block
C3_Witness ==
    /\ DiscoveryDone
    /\ PlainJsonResponse
    /\ CarriesSignedMetadata(PlainDoc)
    /\ optsArg.kind = "none"
    /\ IsVerificationRequired(outcome)

(* C4: when signed_metadata verifies, is a valid payload and binds to the
   request identifier, the result has the signed value for every field the signed payload has and the
   plain value for every field the signed payload lacks. *)
C4_SignedOverridesPlain ==
    (/\ DiscoveryDone
     /\ PlainJsonResponse
     /\ CarriesSignedMetadata(PlainDoc)
     /\ optsArg.kind # "none"
     /\ SignatureVerifies(SignedJwt, optsArg)
     /\ IsStringField(SignedJwt.payload, "resource")
     /\ IsArrayField(SignedJwt.payload, "authorization_servers")
     /\ Len(SignedJwt.payload.authorization_servers.v) > 0
     /\ SignedJwt.payload.resource.v = reqId)
    => /\ outcome.kind = "value"
       /\ \A f \in MetadataFields :
            /\ Has(SignedJwt.payload, f)
                  => (Has(outcome.value, f) /\ outcome.value[f] = SignedJwt.payload[f])
            /\ (~Has(SignedJwt.payload, f) /\ Has(PlainDoc, f))
                  => (Has(outcome.value, f) /\ outcome.value[f] = PlainDoc[f])

\* signed metadata is there, a policy is supplied, and verification cannot
\* succeed: the signature is invalid or no key is resolved
VerificationCannotSucceed ==
    /\ DiscoveryDone
    /\ SignedResponse
    /\ optsArg.kind # "none"
    /\ ~SignatureVerifies(SignedJwt, optsArg)

\* a getKey policy and a well-formed token without a string iss claim
NoIssuerForGetKey ==
    optsArg.kind = "getKey" /\ SignedJwt.wellFormed /\ ~IsStringField(SignedJwt.payload, "iss")

(* C5, as claimed: when verification cannot succeed the call fails with an
   error; it never returns null and never returns the plain claims. *)
C5_FailClosed_Claimed ==
    VerificationCannotSucceed => outcome.kind = "throw"

(* C5, amended: when verification cannot succeed the call never returns
   metadata, neither verified nor the unverified plain claims; it fails with an
   error, except for a well-formed token without a string iss under a getKey
   policy, for which it returns null without asking for a key. *)
C5_FailClosed ==
    VerificationCannotSucceed
    => /\ outcome.kind # "value"
       /\ NoIssuerForGetKey => outcome.kind = "null"
       /\ ~NoIssuerForGetKey => outcome.kind = "throw"

\* reached: signed_metadata with a bad signature inside a plain document that
\* is valid on its own and names the requested resource; the call threw
C5_Witness ==
    /\ VerificationCannotSucceed
    /\ PlainJsonResponse
    /\ SignedJwt.wellFormed
    /\ ~NoIssuerForGetKey
    /\ PlainDoc.resource.v = reqId
    /\ outcome.kind = "throw"

(* C6: a verification failure reaches the caller as the verification error
   itself, not as the malformed-document error, on the JWT-body path and on the
   signed_metadata path. *)
C6_VerificationErrorKind ==
    (VerificationCannotSucceed /\ outcome.kind = "throw")
    => (~IsInvalidDiscovery(outcome)
        /\ outcome.error = VerifiedPayload(SignedJwt, optsArg).error)

\* the payload of the signed response's token
SignedPayload == SignedJwt.payload

\* a plain document that has a string resource and a non-empty
\* authorization_servers array
HasRequiredFields(doc) ==
    /\ IsStringField(doc, "resource")
    /\ IsArrayField(doc, "authorization_servers")
    /\ Len(doc.authorization_servers.v) > 0

\* a 2xx plain JSON document without signed_metadata that does not name
\* another resource than the requested one
PlainUnsignedResponse ==
    /\ DiscoveryDone
    /\ PlainJsonResponse
    /\ ~Has(PlainDoc, "signed_metadata")
    /\ (IsStringField(PlainDoc, "resource") => PlainDoc.resource.v = reqId)

(* C21: for a 2xx plain JSON document without signed_metadata whose resource
   is the requested identifier, the result is the parsed document itself, no
   field added, dropped or changed, when it has a string resource and a
   non-empty authorization_servers array, with or without a verification
   policy; it is null when one of the two is missing or invalid. *)
C21_PlainDocumentUnchanged ==
    PlainUnsignedResponse
    => IF HasRequiredFields(PlainDoc)
       THEN outcome = Value(PlainDoc)
       ELSE outcome = Null

\* reached: a plain document with the two fields and nothing else, handled
\* with a verification policy at hand, came back as it was parsed
C21_Witness ==
    /\ PlainUnsignedResponse
    /\ HasRequiredFields(PlainDoc)
    /\ ~Has(PlainDoc, "bearer_methods_supported")
    /\ optsArg.kind # "none"
    /\ outcome = Value(PlainDoc)

\* a JWT-typed 2xx response whose token verifies under the supplied policy and
\* whose verified resource claim is the request identifier
VerifiedJwtBodyForRequest ==
    /\ DiscoveryDone
    /\ JwtResponse
    /\ optsArg.kind # "none"
    /\ SignatureVerifies(SignedJwt, optsArg)
    /\ IsStringField(SignedPayload, "resource")
    /\ SignedPayload.resource.v = reqId

\* the result carries the payload's resource and its authorization_servers,
\* in the payload's order
CarriesVerifiedClaims ==
    /\ outcome.kind = "value"
    /\ outcome.value.resource = SignedPayload.resource
    /\ outcome.value.authorization_servers = SignedPayload.authorization_servers

(* C22, as claimed: a JWT-typed response whose signature verifies and whose
   verified resource claim is the request identifier yields a non-null result
   with the payload's resource and authorization_servers. *)
C22_VerifiedJwtBody_Claimed ==
    VerifiedJwtBodyForRequest => CarriesVerifiedClaims

(* C22, amended: a JWT-typed response whose signature verifies, whose verified
   resource claim is the request identifier and whose verified payload has a
   non-empty authorization_servers array yields a non-null result with the
   payload's resource and authorization_servers, the order of the list kept. *)
C22_VerifiedJwtBody ==
    (/\ VerifiedJwtBodyForRequest
     /\ IsArrayField(SignedPayload, "authorization_servers")
     /\ Len(SignedPayload.authorization_servers.v) > 0)
    => CarriesVerifiedClaims

\* reached: a verified token that lists more than one authorization server,
\* and the result lists them in the same order
C22_Witness ==
    /\ VerifiedJwtBodyForRequest
    /\ IsArrayField(SignedPayload, "authorization_servers")
    /\ Len(SignedPayload.authorization_servers.v) > 1
    /\ CarriesVerifiedClaims

(* C23: for a response with a non-2xx status the call returns null, whatever
   the content type or body and with or without a verification policy. *)
C23_NonOkIsNull ==
    (DiscoveryDone /\ ~response.ok) => outcome = Null

(* C24: for a 2xx response that is not of the JWT content type and whose body
   does not parse as JSON, the call fails with the "Invalid protected resource
   discovery" error that names the request URL; it returns neither null nor
   metadata. *)
C24_MalformedBodyFails ==
    (/\ DiscoveryDone
     /\ response.ok
     /\ ~IncludesJwtMediaType(response.contentType)
     /\ response.body.kind # "json")
    => (/\ IsInvalidDiscovery(outcome)
        /\ outcome.error.message = <<"Invalid protected resource discovery: ">> \o reqUrl)

\* reached: a compact JWS sent under the JSON content type, handled with a
\* verification policy, ended in the malformed-document error
C24_Witness ==
    /\ DiscoveryDone
    /\ response.ok
    /\ ~IncludesJwtMediaType(response.contentType)
    /\ response.body.kind = "jwt"
    /\ optsArg.kind # "none"
    /\ pathArg # <<>>
    /\ IsInvalidDiscovery(outcome)

\* the iss claim of a token as decodeJwt shows it, JsonNull when it has no
\* string iss
UnverifiedIss(jwt) ==
    IF IsStringField(jwt.payload, "iss") THEN jwt.payload.iss ELSE JsonNull

\* a JWT-typed 2xx response handled under a getKey policy
JwtBodyUnderGetKey ==
    /\ DiscoveryDone
    /\ JwtResponse
    /\ response.body.kind = "jwt"
    /\ optsArg.kind = "getKey"

\* what the call makes of the same response with another token as its body
OutcomeWithToken(jwt) ==
    getProtectedResourceDiscovery(issuerArg, pathArg, optsArg,
                                  [response EXCEPT !.body = JwtBody(jwt)])

(* C26: under a getKey policy nothing of an unverified token but its iss bears
   on the outcome of the JWT-body path: metadata is returned only for a token
   whose signature verifies, and then it is made of the verified payload; two
   well-formed tokens with the same iss that do not verify end the call in the
   same way, whatever their other claims say. *)
C26_OnlyIssBeforeVerification ==
    JwtBodyUnderGetKey
    => /\ outcome.kind = "value"
            => (/\ SignatureVerifies(SignedJwt, optsArg)
                /\ outcome = payloadToResult(SignedPayload))
       /\ (SignedJwt.wellFormed /\ ~SignatureVerifies(SignedJwt, optsArg))
            => \A other \in Jwts :
                  (/\ other.wellFormed
                   /\ UnverifiedIss(other) = UnverifiedIss(SignedJwt)
                   /\ ~SignatureVerifies(other, optsArg))
                  => OutcomeWithToken(other) = outcome

\* reached: a token with a known iss, signed with another key than the one
\* getKey names, whose claims would bind to the request; the call failed
C26_Witness ==
    /\ JwtBodyUnderGetKey
    /\ SignedJwt.wellFormed
    /\ IsStringField(SignedPayload, "iss")
    /\ ResolvedKey(SignedJwt, optsArg) # "none"
    /\ ~SignatureVerifies(SignedJwt, optsArg)
    /\ HasRequiredFields(SignedPayload)
    /\ SignedPayload.resource.v = reqId
    /\ outcome.kind = "throw"

(* C30: every non-null result of the call, on the plain path, the JWT-body
   path and the signed_metadata merge, has a string resource and a non-empty
   authorization_servers array, so that its entry at index 0 exists. *)
C30_ResultHasServers ==
    (DiscoveryDone /\ outcome.kind = "value")
    => (/\ IsStringField(outcome.value, "resource")
        /\ IsArrayField(outcome.value, "authorization_servers")
        /\ Len(outcome.value.authorization_servers.v) > 0)

\* reached: signed metadata verified inside a plain document whose own
\* authorization_servers list is empty, and the merge has the signed list
C30_Witness ==
    /\ DiscoveryDone
    /\ PlainJsonResponse
    /\ CarriesSignedMetadata(PlainDoc)
    /\ Len(PlainDoc.authorization_servers.v) = 0
    /\ outcome.kind = "value"
    /\ Len(outcome.value.authorization_servers.v) > 0

(* C31: every non-null result of the call has a non-empty
   bearer_methods_supported array and a string resource_documentation, on the
   plain JSON path as on the signed paths. *)
C31_ResultHasBearerAndDocs ==
    (DiscoveryDone /\ outcome.kind = "value")
    => (/\ IsArrayField(outcome.value, "bearer_methods_supported")
        /\ Len(outcome.value.bearer_methods_supported.v) > 0
        /\ IsStringField(outcome.value, "resource_documentation"))

\* the identifier the caller passed, written as a string
IssuerAsString(issuer) ==
    IF issuer.kind = "URL" THEN [kind |-> "string", str |-> Href(issuer.url)] ELSE issuer

\* s has the well-known path in it
HasWellKnownPath(s) == \E i \in 1..Len(s) : s[i] = ".well-known"

(* C34: the call leaves the caller's identifier as it was, and the request
   URL, requestResourceId and result are the same whether the identifier is
   passed as a string or as the equivalent URL object; requestResourceId never
   has the /.well-known/oauth-protected-resource path in it. *)
C34_IssuerUntouched ==
    DiscoveryDone
    => (/\ issuerNow = issuerArg
        /\ reqUrl = RequestUrl(IssuerAsString(issuerArg), pathArg)
        /\ reqId = RequestResourceId(IssuerAsString(issuerArg), pathArg)
        /\ outcome = getProtectedResourceDiscovery(IssuerAsString(issuerArg), pathArg,
                                                   optsArg, response)
        /\ ~HasWellKnownPath(reqId))

----------------------------------------------------------------------------
(* FlowState: OAuthState *)

Undefined == <<>>

CODE_CHALLENGE_METHOD == "S256"

\* client.randomState(), randomNonce(), randomPKCECodeVerifier(): the n-th draw
randomState(n) == <<"state", n>>
randomNonce(n) == <<"nonce", n>>
randomPKCECodeVerifier(n) == <<"verifier", n>>

\* client.calculatePKCECodeChallenge(codeVerifier)
calculatePKCECodeChallenge(codeVerifier) == <<"S256">> \o codeVerifier

\* options?.field: undefined when options is undefined or lacks the field
OptionalField(options, f) ==
    IF options # Undefined /\ f \in DOMAIN options THEN options[f] ELSE Undefined

\* the fields the constructor fills from the random source
GeneratedFields(options) ==
    {f \in {"state", "nonce", "codeVerifier"} : OptionalField(options, f) = Undefined}

\* new OAuthState(options), n being the next draw of the random source
NewOAuthState(options, n) ==
    [state |-> IF OptionalField(options, "state") # Undefined
               THEN options.state ELSE randomState(n),
     nonce |-> IF OptionalField(options, "nonce") # Undefined
               THEN options.nonce ELSE randomNonce(n),
     codeVerifier |-> IF OptionalField(options, "codeVerifier") # Undefined
                      THEN options.codeVerifier ELSE randomPKCECodeVerifier(n),
     pkce |-> OptionalField(options, "pkce")]

\* a variant that derives the challenge on every call
getCodeChallenge_AlwaysDerive(st) ==
    [st EXCEPT !.pkce = calculatePKCECodeChallenge(st.codeVerifier)]

\* getCodeChallenge(): the state object afterwards, its pkce being the result
getCodeChallenge(st) ==
    IF st.pkce # Undefined THEN st
    ELSE [st EXCEPT !.pkce = calculatePKCECodeChallenge(st.codeVerifier)]

\* how often getCodeChallenge() invokes client.calculatePKCECodeChallenge
Derivations(st) == IF st.pkce # Undefined THEN 0 ELSE 1

\* no OAuthState object
NoState == [kind |-> "none"]

\* JSON.stringify leaves out the members whose value is undefined
DropUndefined(obj) == [f \in {g \in DOMAIN obj : obj[g] # Undefined} |-> obj[f]]

\* a variant that leaves the code verifier out of the record
OAuthStateToJSON_NoVerifier(st) ==
    [name |-> <<"OAuthState">>, state |-> st.state, nonce |-> st.nonce, pkce |-> st.pkce]

OAuthStateToJSON(st) ==
    [name |-> <<"OAuthState">>, state |-> st.state, nonce |-> st.nonce,
     pkce |-> st.pkce, codeVerifier |-> st.codeVerifier]

----------------------------------------------------------------------------
(* ClientConfiguration: OAuthConfig *)

RedirectUri == <<"https://app.example.com", "/", "callback">>

ServerMetadata(pkce) ==
    [issuer |-> <<"https://as.example.com">>,
     authorization_endpoint |-> <<"https://as.example.com", "/", "authorize">>,
     code_challenge_methods_supported |-> IF pkce THEN <<"S256">> ELSE <<>>]

\* serverMetadata().supportsPKCE()
supportsPKCE(server) ==
    \E i \in 1..Len(server.code_challenge_methods_supported) :
        server.code_challenge_methods_supported[i] = "S256"

\* new OAuthConfig(new Configuration(server, clientId, clientMeta), redirectUri)
NewOAuthConfig(name, server, clientMeta, redirectUri) ==
    [name |-> name, scopes |-> <<>>, additionalParams |-> EmptyObj,
     supportsPKCE |-> supportsPKCE(server), server |-> server, client |-> clientMeta,
     redirectUri |-> redirectUri]

withScopes(config, scopes) == [config EXCEPT !.scopes = scopes]

\* GoogleOAuthConfig.withRefreshToken()
withRefreshToken(config) ==
    [config EXCEPT !.additionalParams =
        [prompt |-> <<"consent">>, access_type |-> <<"offline">>]]

OAuthConfigToJSON(config) ==
    [name |-> config.name, scopes |-> config.scopes, supportsPKCE |-> config.supportsPKCE,
     server |-> config.server, client |-> config.client, redirectUri |-> config.redirectUri]

\* OAuthConfig.fromJSON(json): json.server and json.client.client_id are read
OAuthConfigFromJSON(json) ==
    IF json = Undefined \/ ~({"server", "client", "redirectUri"} \subseteq DOMAIN json)
    THEN Throw(Error("TypeError", <<"undefined is not an object">>))
    ELSE Value(NewOAuthConfig(<<"OAuthConfig">>, json.server, json.client, json.redirectUri))

\* the configurations callers build before a flow starts
Configs ==
    { withScopes(NewOAuthConfig(<<"OAuthConfig">>, ServerMetadata(TRUE),
                                [client_id |-> <<"client-a">>], RedirectUri),
                 <<"openid">>),
      withScopes(withRefreshToken(NewOAuthConfig(<<"GoogleOAuthConfig">>, ServerMetadata(FALSE),
                                                 [client_id |-> <<"client-b">>], RedirectUri)),
                 <<"email", "profile">>) }

\* a subclass that sets its own _additionalParams, as GoogleOAuthConfig does
withAdditionalParams(config, params) == [config EXCEPT !.additionalParams = params]

\* configurations of subclasses whose additional parameters name a nonce
CustomConfigs ==
    { withScopes(withAdditionalParams(
          NewOAuthConfig(<<"CustomOAuthConfig">>, ServerMetadata(pkce),
                         [client_id |-> <<"client-c">>], RedirectUri),
          [nonce |-> <<"configured-nonce">>]), <<"openid">>) : pkce \in BOOLEAN }

\* a configuration of a subclass whose additional parameters name parameters
\* that createAuthorizationUrl sets itself
OverridingConfigs ==
    { withScopes(withAdditionalParams(
          NewOAuthConfig(<<"OverridingOAuthConfig">>, ServerMetadata(TRUE),
                         [client_id |-> <<"client-d">>], RedirectUri),
          [state |-> <<"configured-state">>,
           redirect_uri |-> <<"https://other.example.com", "/", "callback">>]),
          <<"openid">>) }

----------------------------------------------------------------------------
(* StorageProvider: MemoryStorageProvider (synchronous) and
   RedisStorageProvider (asynchronous) *)

JsonText(j) == [kind |-> "json", json |-> j]
GarbageText == [kind |-> "garbage"]
EmptyText == [kind |-> "empty"]
NullText == [kind |-> "null"]

JsonNumber(n) == [t |-> "number", n |-> n]

\* JSON.parse(text)
JSONparse(text) ==
    IF text.kind = "json" THEN Value(text.json)
    ELSE Throw(Error("SyntaxError", <<"JSON Parse error">>))

\* !json for a parsed value
Falsy(json) == json.t = "null" \/ (json.t = "number" /\ json.n = 0)

\* RedisStorageProvider.createKey; MemoryStorageProvider uses the key as it is
ProviderKey(p, key) == IF p = "redis" THEN <<"ez-oauth", ":">> \o key ELSE key

\* storage.get(key): null for a missing key (and, with the memory provider's
\* `|| null`, for an empty value)
StorageGet(p, st, key) ==
    IF ProviderKey(p, key) \in DOMAIN st
    THEN IF p = "memory" /\ st[ProviderKey(p, key)] = EmptyText
         THEN NullText ELSE st[ProviderKey(p, key)]
    ELSE NullText

\* a variant whose get consumes the entry it returns
StorageAfterGet_Pops(p, st, key) == [k \in (DOMAIN st) \ {ProviderKey(p, key)} |-> st[k]]

\* the backend after storage.get(key): cache.get / redis.get read and write
\* nothing
StorageAfterGet(p, st, key) == st

\* the backend after a completed save / delete
StorageWrite(p, st, key, value) ==
    [k \in (DOMAIN st) \cup {ProviderKey(p, key)} |->
        IF k = ProviderKey(p, key) THEN value ELSE st[k]]
StorageRemove(p, st, key) == [k \in (DOMAIN st) \ {ProviderKey(p, key)} |-> st[k]]

EmptyStore == [k \in {} |-> EmptyText]

\* no storage provider has been constructed for a comparison
NoBackends == [made |-> FALSE, options |-> <<>>, mem |-> <<>>, db |-> <<>>]

----------------------------------------------------------------------------
(* OAuthClient *)

STATE_KEY == "core_oauth_state"

\* `${OAuthClient.STATE_KEY}:${key}`
StorageKey(key) == <<STATE_KEY, ":">> \o key

NoClient == [kind |-> "none"]
\* restored: built by fromStorage; generated: the flow state fields that came
\* from the random source when the object was built
NewOAuthClient(config, st, storage, restored, generated) ==
    [kind |-> "client", config |-> config, state |-> st, storage |-> storage,
     restored |-> restored, generated |-> generated]

OAuthStateError(message) == Error("OAuthStateError", message)
OAuthClientError(cause, reason) ==
    [name |-> "OAuthClientError", message |-> <<"Failed to get tokens from code grant">>,
     cause |-> cause, reason |-> reason]

\* the record saveState writes
StateRecord(c) ==
    JsonText(JsonObject([state |-> DropUndefined(OAuthStateToJSON(c.state)),
                         config |-> OAuthConfigToJSON(c.config)]))

\* scopes.join(scopeSeparator)
RECURSIVE Join(_, _)
Join(seq, sep) ==
    IF Len(seq) = 0 THEN <<>>
    ELSE IF Len(seq) = 1 THEN <<seq[1]>>
    ELSE <<seq[1], sep>> \o Join(Tail(seq), sep)

\* the query parameters of createAuthorizationUrl, lines 48-59; st is the flow
\* state after getCodeChallenge
AuthorizationParams(config, st, scopeSeparator) ==
    LET params == Spread([redirect_uri |-> config.redirectUri,
                          scope |-> Join(config.scopes, scopeSeparator),
                          code_challenge |-> st.pkce,
                          state |-> st.state,
                          code_challenge_method |-> <<CODE_CHALLENGE_METHOD>>],
                         config.additionalParams)
    IN  IF ~config.supportsPKCE THEN Spread(params, [nonce |-> st.nonce]) ELSE params

\* client.buildAuthorizationUrl(config, params).toString()
buildAuthorizationUrl(config, params) ==
    [endpoint |-> config.server.authorization_endpoint, params |-> params]

\* does the save call of saveState end before createAuthorizationUrl goes on?
\* storage.save(...) is called and its result is dropped: a promise it
\* returns is not awaited
SaveIsAwaited(p) == p = "memory"

\* the try block of fromStorage, lines 142-161; n is the next random draw
fromStorageTry(p, st, key, n) ==
    LET entry == StorageGet(p, st, StorageKey(key)) IN
    IF entry = NullText \/ entry = EmptyText
    THEN Throw(OAuthStateError(<<"State ", key, " not found">>))
    ELSE LET parsed == JSONparse(entry) IN
         IF parsed.kind = "throw" THEN parsed
         ELSE IF Falsy(parsed.value)
              THEN Throw(OAuthStateError(<<"State ", key, " not found">>))
         ELSE IF parsed.value.t # "object"
              THEN Throw(Error("TypeError", <<"right-hand side of 'in' is not an object">>))
         ELSE LET json == parsed.value.o IN
              IF ~("state" \in DOMAIN json) /\ ~("config" \in DOMAIN json)
              THEN Throw(OAuthStateError(<<"State ", key, " is invalid">>))
              ELSE LET stateJson == OptionalField(json, "state")
                       config == OAuthConfigFromJSON(OptionalField(json, "config"))
                   IN  IF config.kind = "throw" THEN config
                       ELSE Value(NewOAuthClient(config.value, NewOAuthState(stateJson, n),
                                                 TRUE, TRUE, GeneratedFields(stateJson)))

\* fromStorage with its catch block, lines 162-168
fromStorage(p, st, key, n) ==
    LET r == fromStorageTry(p, st, key, n) IN
    IF r.kind = "throw" /\ r.error.name = "SyntaxError"
    THEN Throw(Error("Error", <<"Invalid state entry">>))
    ELSE r

\* what client.authorizationCodeGrant can do with a callback
Tokens == [kind |-> "tokens"]
GrantFailures ==
    { [kind |-> "error", name |-> "ClientError", cause |-> "none", body |-> "none"],
      [kind |-> "error", name |-> "ClientError", cause |-> "HTTPError", body |-> "json"],
      [kind |-> "error", name |-> "ClientError", cause |-> "HTTPError", body |-> "unparsable"],
      [kind |-> "error", name |-> "TypeError", cause |-> "none", body |-> "none"] }

\* the capability checks the callback's state against expectedState itself,
\* before any request: a mismatch is a ClientError without a cause
GrantOutcomes(callbackState, expectedState) ==
    IF callbackState = expectedState THEN {Tokens} \cup GrantFailures
    ELSE {[kind |-> "error", name |-> "ClientError", cause |-> "none", body |-> "none"]}

ReturnUndefined == [kind |-> "undefined"]

\* getTokensFromCodeGrant, lines 83-108, given what the capability did:
\* calls counts the invocations of the capability
getTokensFromCodeGrant(grant) ==
    IF grant.kind = "tokens" THEN [calls |-> 1, result |-> Value(grant)]
    ELSE IF grant.name = "ClientError"
         THEN IF grant.cause = "HTTPError" /\ grant.body = "unparsable"
              THEN [calls |-> 1, result |-> Throw(Error("SyntaxError", <<"JSON Parse error">>))]
              ELSE [calls |-> 1,
                    result |-> Throw(OAuthClientError(grant,
                        IF grant.cause = "HTTPError" /\ grant.body = "json"
                        THEN <<"provider error payload">> ELSE Undefined))]
         ELSE [calls |-> 1, result |-> ReturnUndefined]

----------------------------------------------------------------------------
(* The flow as steps *)

Slots == 1..MaxClients

\* the flow state tokens: those the random source hands out, and one (0) that
\* only entries written by other writers name
ForeignState == randomState(0)
StateTokens == {randomState(n) : n \in 0..MaxStates}

\* the callback's state parameter with its letters in the other case
OtherCase(s) == <<"STATE", s[2]>>

\* a variant that hands the capability no expected state
GrantRequest_NoExpectedState(st) ==
    [expectedState |-> Undefined, pkceCodeVerifier |-> st.codeVerifier,
     expectedNonce |-> st.nonce]

GrantRequest(st) ==
    [expectedState |-> st.state, pkceCodeVerifier |-> st.codeVerifier,
     expectedNonce |-> st.nonce]

ForeignStateJson ==
    [name |-> <<"OAuthState">>, state |-> ForeignState, nonce |-> randomNonce(0),
     codeVerifier |-> randomPKCECodeVerifier(0)]
ForeignConfigJson == OAuthConfigToJSON(CHOOSE c \in Configs : c.supportsPKCE)

\* what another writer may have left under a key
ForeignTexts ==
    { EmptyText, GarbageText, JsonText(JsonNull), JsonText(JsonNumber(5)),
      JsonText(JsonObject(EmptyObj)),
      JsonText(JsonObject([state |-> ForeignStateJson])),
      JsonText(JsonObject([config |-> ForeignConfigJson])),
      JsonText(JsonObject([state |-> ForeignStateJson, config |-> ForeignConfigJson])) }

Op(op, slot, arg, result) == [op |-> op, slot |-> slot, arg |-> arg, result |-> result]

\* a storage that holds one entry some other writer left
ForeignStores(p) ==
    {StorageWrite(p, EmptyStore, StorageKey(ForeignState), t) : t \in ForeignTexts}

TotalExchanges == LET RECURSIVE Sum(_)
                      Sum(S) == IF S = {} THEN 0
                                ELSE LET s == CHOOSE x \in S : TRUE
                                     IN exchanges[s] + Sum(S \ {s})
                  IN Sum(StateTokens)

FlowInit ==
    /\ provider \in {"none", "memory", "redis"}
    /\ appConfig \in Configs
    /\ store = EmptyStore
    /\ pending = {}
    /\ rejected = {}
    /\ clients = [i \in Slots |-> NoClient]
    /\ urls = {}
    /\ exchanges = [s \in StateTokens |-> 0]
    /\ rand = 0
    /\ last = Op("none", 0, <<>>, Null)
    /\ fs = NoState
    \* no discovery call is under way
    /\ dpc = "idle"
    /\ issuerArg = [kind |-> "string", str |-> <<ResourceOrigin>>]
    /\ issuerNow = issuerArg
    /\ pathArg = <<>>
    /\ optsArg = NoJwt
    /\ response = [ok |-> FALSE, contentType |-> <<>>, body |-> GarbageBody, url |-> <<>>]
    /\ reqUrl = <<>>
    /\ backends = NoBackends
    /\ serverNow = NoAnswer
    /\ cache = EmptyCache
    /\ reqId = <<>>
    /\ outcome = [kind |-> "pending"]

\* new OAuthClient(config, new OAuthState(), storage)
NewClient(i) ==
    /\ clients[i] = NoClient
    /\ \A j \in Slots : j < i => clients[j] # NoClient
    /\ rand < MaxStates
    /\ clients' = [clients EXCEPT ![i] =
          NewOAuthClient(appConfig, NewOAuthState(Undefined, rand + 1), provider # "none",
                         FALSE, GeneratedFields(Undefined))]
    /\ rand' = rand + 1
    /\ last' = Op("new", i, <<>>, Null)
    /\ UNCHANGED <<dvars, backends, fs, provider, appConfig, store, pending, rejected, urls, exchanges>>

\* a variant in which the URL check never ends the call
SheriffRejects_Never(sheriff) == FALSE

\* lines 44-46: in production isSafeURL(redirectUri) is awaited first, and it
\* throws for a URL it judges unsafe
SheriffRejects(sheriff) == sheriff = "unsafe"

\* createAuthorizationUrl(scopeSeparator); sheriff is what the URL check did:
\* "skipped" outside production, else "safe" or "unsafe"
CreateAuthorizationUrl(i) ==
    /\ clients[i] # NoClient
    /\ \E sheriff \in {"skipped", "safe", "unsafe"} :
        LET c == clients[i]
            st == getCodeChallenge(c.state)
            after == [c EXCEPT !.state = st]
            key == StorageKey(st.state)
        IN  IF SheriffRejects(sheriff)
            THEN /\ last' = Op("createAuthorizationUrl", i, sheriff,
                               Throw(Error("Error", <<"URL is not safe">>)))
                 /\ UNCHANGED <<clients, store, pending, urls>>
            ELSE /\ clients' = [clients EXCEPT ![i] = after]
                 /\ IF ~c.storage
                    THEN UNCHANGED <<store, pending>>
                    ELSE IF SaveIsAwaited(provider)
                         THEN /\ store' = StorageWrite(provider, store, key, StateRecord(after))
                              /\ UNCHANGED pending
                         ELSE /\ pending' = pending \cup
                                     {[key |-> key, value |-> StateRecord(after)]}
                              /\ UNCHANGED store
                 /\ urls' = urls \cup {st.state}
                 /\ last' = Op("createAuthorizationUrl", i, sheriff,
                               Value(buildAuthorizationUrl(c.config,
                                         AuthorizationParams(c.config, st, " "))))
    /\ UNCHANGED <<dvars, backends, fs, provider, appConfig, rejected, exchanges, rand>>

\* the redis SET of a save in flight completes
SaveCompletes ==
    /\ \E p \in pending :
          /\ store' = StorageWrite(provider, store, p.key, p.value)
          /\ pending' = pending \ {p}
          /\ last' = Op("saveCompleted", 0, p.key, Null)
    /\ UNCHANGED <<dvars, backends, fs, provider, appConfig, rejected, clients, urls, exchanges, rand>>

\* the redis SET of a save in flight fails: the promise nobody holds rejects
SaveRejects ==
    /\ \E p \in pending :
          /\ rejected' = rejected \cup {p.key}
          /\ pending' = pending \ {p}
          /\ last' = Op("saveRejected", 0, p.key, Null)
    /\ UNCHANGED <<dvars, backends, fs, provider, appConfig, store, clients, urls, exchanges, rand>>

\* getTokensFromCodeGrant(url): the callback carries a state parameter
GetTokensFromCodeGrant(i) ==
    /\ clients[i] # NoClient
    /\ TotalExchanges < MaxExchanges
    /\ \E callbackState \in {clients[i].state.state, OtherCase(clients[i].state.state),
                            ForeignState} :
       \E grant \in GrantOutcomes(callbackState, GrantRequest(clients[i].state).expectedState) :
          LET r == getTokensFromCodeGrant(grant) IN
          /\ exchanges' = [exchanges EXCEPT ![clients[i].state.state] = @ + r.calls]
          /\ last' = Op("getTokensFromCodeGrant", i,
                        [callbackState |-> callbackState, grant |-> grant,
                         request |-> GrantRequest(clients[i].state)],
                        r.result)
    /\ UNCHANGED <<dvars, backends, fs, provider, appConfig, store, pending, rejected, clients, urls, rand>>

\* OAuthClient.fromStorage(storage, ConfigClass, StateClass, key)
FromStorage(i) ==
    /\ clients[i] = NoClient
    /\ \A j \in Slots : j < i => clients[j] # NoClient
    /\ provider # "none"
    /\ \E key \in StateTokens :
          LET r == fromStorage(provider, store, key, rand + 1) IN
          /\ (r.kind = "value" /\ r.value.generated # {}) => rand < MaxStates
          /\ clients' = [clients EXCEPT ![i] = IF r.kind = "value" THEN r.value ELSE NoClient]
          /\ rand' = IF r.kind = "value" /\ r.value.generated # {} THEN rand + 1 ELSE rand
          /\ last' = Op("fromStorage", i,
                        [key |-> key, entry |-> StorageGet(provider, store, StorageKey(key))], r)
          \* the one storage call of fromStorage is storage.get, line 143
          /\ store' = StorageAfterGet(provider, store, StorageKey(key))
    /\ UNCHANGED <<dvars, backends, fs, provider, appConfig, pending, rejected, urls, exchanges>>

\* the request that held the client object is over: the object is dropped
DropClient(i) ==
    /\ clients[i] # NoClient
    /\ clients' = [clients EXCEPT ![i] = NoClient]
    /\ last' = Op("drop", i, <<>>, Null)
    /\ UNCHANGED <<dvars, backends, fs, provider, appConfig, store, pending, rejected, urls, exchanges, rand>>

\* the caller deletes an entry: storage.delete(key)
CallerDeletes ==
    /\ \E s \in StateTokens :
          /\ ProviderKey(provider, StorageKey(s)) \in DOMAIN store
          /\ store' = StorageRemove(provider, store, StorageKey(s))
          /\ last' = Op("delete", 0, StorageKey(s), Null)
    /\ UNCHANGED <<dvars, backends, fs, provider, appConfig, pending, rejected, clients, urls, exchanges, rand>>

\* a callback arrives at a process that finds the storage as others left it
ResumeInit ==
    /\ provider \in {"memory", "redis"}
    /\ appConfig \in Configs
    /\ store \in ForeignStores(provider)
    /\ pending = {}
    /\ rejected = {}
    /\ clients = [i \in Slots |-> NoClient]
    /\ urls = {}
    /\ exchanges = [s \in StateTokens |-> 0]
    /\ rand = 0
    /\ last = Op("none", 0, <<>>, Null)
    /\ fs = NoState
    \* no discovery call is under way
    /\ dpc = "idle"
    /\ issuerArg = [kind |-> "string", str |-> <<ResourceOrigin>>]
    /\ issuerNow = issuerArg
    /\ pathArg = <<>>
    /\ optsArg = NoJwt
    /\ response = [ok |-> FALSE, contentType |-> <<>>, body |-> GarbageBody, url |-> <<>>]
    /\ reqUrl = <<>>
    /\ backends = NoBackends
    /\ serverNow = NoAnswer
    /\ cache = EmptyCache
    /\ reqId = <<>>
    /\ outcome = [kind |-> "pending"]

ResumeNext ==
    \/ \E i \in Slots : FromStorage(i)
    \/ \E i \in Slots : GetTokensFromCodeGrant(i)
    \/ \E i \in Slots : CreateAuthorizationUrl(i)
    \/ SaveCompletes
    \/ SaveRejects
    \/ \E i \in Slots : DropClient(i)
    \/ CallerDeletes

FlowNext ==
    \/ \E i \in Slots : NewClient(i)
    \/ \E i \in Slots : CreateAuthorizationUrl(i)
    \/ SaveCompletes
    \/ SaveRejects
    \/ \E i \in Slots : GetTokensFromCodeGrant(i)
    \/ \E i \in Slots : FromStorage(i)
    \/ \E i \in Slots : DropClient(i)
    \/ CallerDeletes

\* one process, from the authorization URL to the callback, with every kind
\* of configuration and a synchronous provider or none; nothing is resumed
\* from storage
AttemptInit ==
    /\ provider \in {"none", "memory"}
    /\ appConfig \in Configs \cup CustomConfigs \cup OverridingConfigs
    /\ store = EmptyStore
    /\ pending = {}
    /\ rejected = {}
    /\ clients = [i \in Slots |-> NoClient]
    /\ urls = {}
    /\ exchanges = [s \in StateTokens |-> 0]
    /\ rand = 0
    /\ last = Op("none", 0, <<>>, Null)
    /\ fs = NoState
    /\ dpc = "idle"
    /\ issuerArg = [kind |-> "string", str |-> <<ResourceOrigin>>]
    /\ issuerNow = issuerArg
    /\ pathArg = <<>>
    /\ optsArg = NoJwt
    /\ response = [ok |-> FALSE, contentType |-> <<>>, body |-> GarbageBody, url |-> <<>>]
    /\ reqUrl = <<>>
    /\ backends = NoBackends
    /\ serverNow = NoAnswer
    /\ cache = EmptyCache
    /\ reqId = <<>>
    /\ outcome = [kind |-> "pending"]

AttemptNext ==
    \/ \E i \in Slots : NewClient(i)
    \/ \E i \in Slots : CreateAuthorizationUrl(i)
    \/ \E i \in Slots : GetTokensFromCodeGrant(i)
    \/ \E i \in Slots : DropClient(i)

----------------------------------------------------------------------------
(* OAuthState on its own: construction, challenge, serialization *)

\* a challenge that is not the derivation of any code verifier in use
ForeignChallenge == calculatePKCECodeChallenge(randomPKCECodeVerifier(-1))

\* records as toJSON wrote them for an earlier state, with and without pkce
StoredStateJson == OAuthStateToJSON(NewOAuthState(Undefined, 0))

\* what callers pass to new OAuthState(options) and OAuthState.fromJSON(json)
StateOptions ==
    { Undefined,
      [state |-> <<"given-state">>],
      [nonce |-> <<"given-nonce">>],
      [codeVerifier |-> randomPKCECodeVerifier(0)],
      [codeVerifier |-> randomPKCECodeVerifier(0),
       pkce |-> calculatePKCECodeChallenge(randomPKCECodeVerifier(0))],
      [pkce |-> ForeignChallenge],
      DropUndefined(StoredStateJson),
      DropUndefined(OAuthStateToJSON(getCodeChallenge(NewOAuthState(Undefined, 0)))),
      DropUndefined([StoredStateJson EXCEPT !.pkce = ForeignChallenge]) }

\* OAuthState.fromJSON(state.toJSON()), directly or through
\* JSON.parse(JSON.stringify(state)) (toString, saveState); n is the next
\* draw of the random source
RoundTrip(st, via, n) ==
    IF via = "object" THEN NewOAuthState(OAuthStateToJSON(st), n)
    ELSE NewOAuthState(JSONparse(JsonText(JsonObject(DropUndefined(OAuthStateToJSON(st))))).value.o, n)

\* new OAuthState(options) / OAuthState.fromJSON(options)
NewState ==
    /\ fs = NoState
    /\ \E options \in StateOptions :
          /\ GeneratedFields(options) # {} => rand < MaxStates
          /\ fs' = NewOAuthState(options, rand + 1)
          /\ rand' = IF GeneratedFields(options) # {} THEN rand + 1 ELSE rand
          /\ last' = Op("newState", 0, options, Value(NewOAuthState(options, rand + 1)))
    /\ UNCHANGED <<dvars, backends, provider, appConfig, store, pending, rejected, clients, urls, exchanges>>

\* await state.getCodeChallenge()
GetCodeChallenge ==
    /\ fs # NoState
    /\ fs' = getCodeChallenge(fs)
    /\ last' = Op("getCodeChallenge", 0, [before |-> fs, derivations |-> Derivations(fs)],
                  Value(getCodeChallenge(fs).pkce))
    /\ UNCHANGED <<dvars, backends, provider, appConfig, store, pending, rejected, clients, urls,
                   exchanges, rand>>

\* state._pkce = value: the field is public and writable
AssignPkce ==
    /\ fs # NoState
    /\ \E v \in {ForeignChallenge, Undefined} :
          /\ fs.pkce # v
          /\ fs' = [fs EXCEPT !.pkce = v]
          /\ last' = Op("assignPkce", 0, v, Null)
    /\ UNCHANGED <<dvars, backends, provider, appConfig, store, pending, rejected, clients, urls,
                   exchanges, rand>>

\* the object is replaced by OAuthState.fromJSON of its own serialization
SerializeAndRestore ==
    /\ fs # NoState
    /\ \E via \in {"object", "text"} :
          LET json == OAuthStateToJSON(fs) IN
          /\ GeneratedFields(json) # {} => rand < MaxStates
          /\ fs' = RoundTrip(fs, via, rand + 1)
          /\ rand' = IF GeneratedFields(json) # {} THEN rand + 1 ELSE rand
          /\ last' = Op("roundTrip", 0, [before |-> fs, via |-> via],
                        Value(RoundTrip(fs, via, rand + 1)))
    /\ UNCHANGED <<dvars, backends, provider, appConfig, store, pending, rejected, clients, urls,
                   exchanges>>

\* the caller lets go of the object
DropState ==
    /\ fs # NoState
    /\ fs' = NoState
    /\ last' = Op("dropState", 0, <<>>, Null)
    /\ UNCHANGED <<dvars, backends, provider, appConfig, store, pending, rejected, clients, urls,
                   exchanges, rand>>

StateNext ==
    \/ NewState
    \/ GetCodeChallenge
    \/ AssignPkce
    \/ SerializeAndRestore
    \/ DropState

----------------------------------------------------------------------------
(* Specifications *)

vars == <<dvars, fvars, fs, backends>>

\* the arguments of one discovery call; no OAuthClient, no storage provider
DiscoveryInit ==
    /\ dpc = "idle"
    /\ issuerArg \in Issuers
    /\ issuerNow = issuerArg
    /\ pathArg \in ResourcePaths
    /\ optsArg \in JwtOptions
    /\ response = [ok |-> FALSE, contentType |-> <<>>, body |-> GarbageBody, url |-> <<>>]
    /\ reqUrl = <<>>
    /\ backends = NoBackends
    /\ serverNow = NoAnswer
    /\ cache = EmptyCache
    /\ reqId = <<>>
    /\ outcome = [kind |-> "pending"]
    /\ provider = "none"
    /\ appConfig = CHOOSE c \in Configs : c.supportsPKCE
    /\ store = EmptyStore
    /\ pending = {}
    /\ rejected = {}
    /\ clients = [i \in Slots |-> NoClient]
    /\ urls = {}
    /\ exchanges = [s \in StateTokens |-> 0]
    /\ rand = 0
    /\ last = Op("none", 0, <<>>, Null)
    /\ fs = NoState

SpecDiscovery == DiscoveryInit /\ [][DiscoveryNext]_vars

SpecFlow == FlowInit /\ [][FlowNext]_vars

SpecResume == ResumeInit /\ [][ResumeNext]_vars

SpecAttempt == AttemptInit /\ [][AttemptNext]_vars

\* only OAuthState objects: no OAuthClient, no storage provider, no discovery
StateInit ==
    /\ fs = NoState
    /\ rand = 0
    /\ last = Op("none", 0, <<>>, Null)
    /\ provider = "none"
    /\ appConfig = CHOOSE c \in Configs : c.supportsPKCE
    /\ store = EmptyStore
    /\ pending = {}
    /\ rejected = {}
    /\ clients = [i \in Slots |-> NoClient]
    /\ urls = {}
    /\ exchanges = [s \in StateTokens |-> 0]
    /\ dpc = "idle"
    /\ issuerArg = [kind |-> "string", str |-> <<ResourceOrigin>>]
    /\ issuerNow = issuerArg
    /\ pathArg = <<>>
    /\ optsArg = NoJwt
    /\ response = [ok |-> FALSE, contentType |-> <<>>, body |-> GarbageBody, url |-> <<>>]
    /\ reqUrl = <<>>
    /\ backends = NoBackends
    /\ serverNow = NoAnswer
    /\ cache = EmptyCache
    /\ reqId = <<>>
    /\ outcome = [kind |-> "pending"]

SpecState == StateInit /\ [][StateNext]_vars

----------------------------------------------------------------------------
(* The flow: what the claims speak of *)

\* the client object the last operation was called on, or built
LastClient == clients[last.slot]

\* the entry the storage returns for a flow state
EntryOf(s) == StorageGet(provider, store, StorageKey(s))

(* C7: with a storage provider, createAuthorizationUrl hands back the URL only
   after the save of the record under core_oauth_state:<state> has completed,
   and a failed save makes it fail instead of returning a URL. *)
C7_SaveBeforeUrl ==
    /\ (/\ last.op = "createAuthorizationUrl"
        /\ last.result.kind = "value"
        /\ LastClient.storage)
       => EntryOf(LastClient.state.state) = StateRecord(LastClient)
    /\ \A s \in urls : StorageKey(s) \notin rejected

(* C8: a failure of the grant capability that is not a ClientError reaches the
   caller of getTokensFromCodeGrant unchanged: the call throws that error and
   does not complete normally. *)
C8_OtherFailuresPropagate ==
    (/\ last.op = "getTokensFromCodeGrant"
     /\ last.arg.grant.kind = "error"
     /\ last.arg.grant.name # "ClientError")
    => (last.result.kind = "throw" /\ last.result.error.name = last.arg.grant.name)

(* C9: fromStorage on a parsed entry that lacks the state or the config
   sub-record fails with a state-invalid error and builds no client. *)
C9_EntryNeedsStateAndConfig ==
    (/\ last.op = "fromStorage"
     /\ last.arg.entry.kind = "json"
     /\ last.arg.entry.json.t = "object"
     /\ ~({"state", "config"} \subseteq DOMAIN last.arg.entry.json.o))
    => /\ last.result.kind = "throw"
       /\ last.result.error.name = "OAuthStateError"
       /\ LastClient = NoClient

(* C10: once getTokensFromCodeGrant has returned or thrown for an
   attempt, no further token exchange is performed for that attempt. *)
C10_NoReuse == \A s \in StateTokens : exchanges[s] <= 1

\* the flow state an attempt had when its authorization URL was built: the
\* draws of the random source that gave the state token, and the challenge
\* derived for the URL
OriginalState(s) == getCodeChallenge(NewOAuthState(Undefined, s[2]))

\* the caller has not deleted the attempt's record: it is in the backend or
\* on its way there
EntryKept(s) ==
    \/ ProviderKey(provider, StorageKey(s)) \in DOMAIN store
    \/ \E p \in pending : p.key = StorageKey(s)

(* C11: after createAuthorizationUrl has completed with a storage provider,
   fromStorage with the attempt's state as key succeeds and returns a client
   whose flow state has the state, nonce, codeVerifier and code challenge of
   the original, the challenge being the one put in the authorization URL. *)
C11_StorageRoundTrip ==
    (/\ last.op = "fromStorage"
     /\ last.arg.key \in urls
     /\ EntryKept(last.arg.key))
    => /\ last.result.kind = "value"
       /\ last.result.value.state = OriginalState(last.arg.key)
       /\ buildAuthorizationUrl(appConfig,
              AuthorizationParams(appConfig, OriginalState(last.arg.key), " ")).params.code_challenge
            = last.result.value.state.pkce

(* C37: the configuration of a client rebuilt by fromStorage, which is
   ConfigClass.fromJSON of the persisted toJSON, has the scopes, the
   additional parameters, the redirect URI and the PKCE-support flag of the
   configuration the attempt was started with. *)
C37_ConfigRoundTrip ==
    (/\ last.op = "fromStorage"
     /\ last.arg.key \in urls
     /\ last.result.kind = "value")
    => /\ last.result.value.config.scopes = appConfig.scopes
       /\ last.result.value.config.additionalParams = appConfig.additionalParams
       /\ last.result.value.config.redirectUri = appConfig.redirectUri
       /\ last.result.value.config.supportsPKCE = appConfig.supportsPKCE

\* the keys of the backend whose entry a step adds, changes or removes
ChangedKeys ==
    {k \in (DOMAIN store) \cup (DOMAIN store') :
        \/ k \notin DOMAIN store
        \/ k \notin DOMAIN store'
        \/ store[k] # store'[k]}

(* C32: attempts with distinct state values that share one storage backend do
   not interfere: createAuthorizationUrl of an attempt writes, or hands to the
   backend, only the key core_oauth_state:<its own state>, fromStorage and
   getTokensFromCodeGrant write nothing, and fromStorage with the state of an
   attempt whose URL was built and whose record nobody deleted returns a
   client with that attempt's flow state, whatever the other attempts did in
   between. *)
C32_AttemptsIndependent ==
    [][/\ last'.op = "createAuthorizationUrl"
          => LET own == StorageKey(clients'[last'.slot].state.state) IN
             /\ ChangedKeys \subseteq {ProviderKey(provider, own)}
             /\ \A p \in pending' \ pending : p.key = own
       /\ last'.op \in {"fromStorage", "getTokensFromCodeGrant"}
          => (ChangedKeys = {} /\ pending' = pending)
       /\ (/\ last'.op = "fromStorage"
           /\ last'.arg.key \in urls
           /\ EntryKept(last'.arg.key))
          => /\ last'.result.kind = "value"
             /\ last'.result.value.state = OriginalState(last'.arg.key)]_vars

(* C38: fromStorage and getTokensFromCodeGrant leave the storage as it is:
   whether they succeed or fail, no entry is written, overwritten or deleted
   and no save is started, so a record stays as createAuthorizationUrl wrote
   it. *)
C38_ReadsLeaveStorage ==
    [][last'.op \in {"fromStorage", "getTokensFromCodeGrant"}
        => (store' = store /\ pending' = pending /\ rejected' = rejected)]_vars

\* reached: another attempt's URL was built after this one's, then
\* fromStorage rebuilt this attempt's client and its token exchange failed;
\* the record is in the backend as createAuthorizationUrl wrote it
C38_Witness ==
    /\ last.op = "getTokensFromCodeGrant"
    /\ last.result.kind = "throw"
    /\ LastClient.restored
    /\ Cardinality(urls) = 2
    /\ LastClient.state = OriginalState(LastClient.state.state)
    /\ EntryOf(LastClient.state.state)
         = StateRecord([LastClient EXCEPT !.config = appConfig])

----------------------------------------------------------------------------
(* OAuthState: what the claims speak of *)

\* the challenge a flow state reports: what getCodeChallenge() resolves to
ReportedChallenge(st) == getCodeChallenge(st).pkce

(* C12: at every point of its lifetime the code challenge a FlowState reports
   is the S256 derivation of its codeVerifier, whatever record or options it
   was built from and whatever was assigned to it. *)
C12_ChallengeBoundToVerifier ==
    fs # NoState => ReportedChallenge(fs) = calculatePKCECodeChallenge(fs.codeVerifier)

(* C18: fromJSON(toJSON(fs)) has the state, nonce, codeVerifier and memoized
   challenge of fs, and reports the code challenge fs reports, whether or not
   fs had computed the challenge before it was serialized. *)
C18_StateRoundTrip ==
    last.op = "roundTrip"
    => /\ fs = last.result.value
       /\ fs.state = last.arg.before.state
       /\ fs.nonce = last.arg.before.nonce
       /\ fs.codeVerifier = last.arg.before.codeVerifier
       /\ fs.pkce = last.arg.before.pkce
       /\ ReportedChallenge(fs) = ReportedChallenge(last.arg.before)

\* reached: a state that had not computed its challenge went through
\* JSON.stringify and JSON.parse and came back with nothing generated anew
C18_Witness ==
    /\ last.op = "roundTrip"
    /\ last.arg.via = "text"
    /\ last.arg.before.pkce = Undefined
    /\ fs.codeVerifier = last.arg.before.codeVerifier
    /\ fs.pkce = Undefined

(* C19: creating a FlowState computes no challenge; getCodeChallenge on a
   state without a stored challenge derives it from codeVerifier and stores
   it; on a state with a stored challenge, computed earlier or restored, it
   returns that value, derives nothing and leaves the state as it is. *)
C19_LazyMemoizedChallenge ==
    /\ (last.op = "newState" /\ OptionalField(last.arg, "pkce") = Undefined)
          => fs.pkce = Undefined
    /\ last.op = "getCodeChallenge"
          => IF last.arg.before.pkce = Undefined
             THEN /\ last.arg.derivations = 1
                  /\ last.result = Value(calculatePKCECodeChallenge(last.arg.before.codeVerifier))
                  /\ fs = [last.arg.before EXCEPT !.pkce = last.result.value]
             ELSE /\ last.arg.derivations = 0
                  /\ last.result = Value(last.arg.before.pkce)
                  /\ fs = last.arg.before

\* reached: a call on a state whose challenge was stored before; it returned
\* the stored value
C19_Witness ==
    /\ last.op = "getCodeChallenge"
    /\ last.arg.before.pkce # Undefined
    /\ last.arg.derivations = 0
    /\ last.result = Value(fs.pkce)

----------------------------------------------------------------------------
(* One attempt: what the claims speak of *)

\* the query parameters of the authorization URL the last call returned
LastUrlParams == last.result.value.params

(* C13: the authorization URL built with a PKCE-supporting config has no nonce
   parameter, and the one built with a config that does not support PKCE has
   nonce equal to the flow state's nonce, whatever additional parameters the
   configuration supplies. *)
C13_NonceOnlyWithoutPKCE ==
    (last.op = "createAuthorizationUrl" /\ last.result.kind = "value")
    => IF LastClient.config.supportsPKCE
       THEN "nonce" \notin DOMAIN LastUrlParams
       ELSE "nonce" \in DOMAIN LastUrlParams /\ LastUrlParams.nonce = LastClient.state.nonce

(* C14: getTokensFromCodeGrant hands the grant capability expectedState =
   flowState.state and pkceCodeVerifier = flowState.codeVerifier, and for a
   callback whose state parameter is not byte-equal to flowState.state,
   differing in letter case only included, it never returns tokens. *)
C14_StateMustMatch ==
    last.op = "getTokensFromCodeGrant"
    => /\ last.arg.request.expectedState = LastClient.state.state
       /\ last.arg.request.pkceCodeVerifier = LastClient.state.codeVerifier
       /\ last.arg.callbackState # LastClient.state.state => last.result.kind # "value"

\* reached: a callback whose state differs from the flow state in letter
\* case only; the call failed
C14_Witness ==
    /\ last.op = "getTokensFromCodeGrant"
    /\ last.arg.callbackState = OtherCase(LastClient.state.state)
    /\ last.arg.request.expectedState = LastClient.state.state
    /\ last.result.kind = "throw"

(* C20: in production, when the URL check judges the redirect URI unsafe,
   createAuthorizationUrl fails: it returns no URL and nothing is handed to
   the storage, the check coming before any persistence. *)
C20_UnsafeUrlFailsClosed ==
    [][(last'.op = "createAuthorizationUrl" /\ last'.arg = "unsafe")
        => /\ last'.result.kind = "throw"
           /\ store' = store
           /\ pending' = pending
           /\ urls' = urls]_vars

\* reached: a client with a storage provider whose redirect URI was judged
\* unsafe before any URL was built for it; the call threw, the storage is
\* empty and no save is in flight
C20_Witness ==
    /\ last.op = "createAuthorizationUrl"
    /\ last.arg = "unsafe"
    /\ last.result.kind = "throw"
    /\ LastClient.storage
    /\ LastClient.state.state \notin urls
    /\ store = EmptyStore
    /\ pending = {}

(* C35: in every authorization URL the state parameter is the flow state's
   state, code_challenge is the flow state's challenge, code_challenge_method
   is S256 and redirect_uri is the configured redirect URI, whatever
   additional parameters the configuration supplies. *)
C35_SecurityParametersKept ==
    (last.op = "createAuthorizationUrl" /\ last.result.kind = "value")
    => /\ LastUrlParams.state = LastClient.state.state
       /\ LastUrlParams.code_challenge = LastClient.state.pkce
       /\ LastUrlParams.code_challenge_method = <<CODE_CHALLENGE_METHOD>>
       /\ LastUrlParams.redirect_uri = LastClient.config.redirectUri

(* C36: getTokensFromCodeGrant hands an expected nonce to the grant capability
   only for attempts whose authorization URL carried a nonce parameter; for a
   configuration that supports PKCE, whose URL carries no nonce, no nonce
   match is demanded. *)
C36_NonceOnlyWhenSent ==
    (/\ last.op = "getTokensFromCodeGrant"
     /\ "nonce" \notin DOMAIN AuthorizationParams(LastClient.config, LastClient.state, " "))
    => last.arg.request.expectedNonce = Undefined

(* C15: when the grant capability fails with a ClientError,
   getTokensFromCodeGrant fails with an OAuthClientError whose cause is that
   error and whose reason is the parsed provider error body when the cause is
   an HTTP error with a parsable body, and absent otherwise; no other error
   escapes. *)
C15_ClientErrorIsWrapped ==
    (/\ last.op = "getTokensFromCodeGrant"
     /\ last.arg.grant.kind = "error"
     /\ last.arg.grant.name = "ClientError")
    => /\ last.result.kind = "throw"
       /\ last.result.error.name = "OAuthClientError"
       /\ last.result.error.cause = last.arg.grant
       /\ last.result.error.reason =
             IF last.arg.grant.cause = "HTTPError" /\ last.arg.grant.body = "json"
             THEN <<"provider error payload">> ELSE Undefined

\* the error of fromStorage that says the state was not found
IsStateNotFound(r, key) ==
    r.kind = "throw" /\ r.error = OAuthStateError(<<"State ", key, " not found">>)

\* the storage holds no value under core_oauth_state:<key>: no entry, or an
\* entry whose value is the empty string
HoldsNoValue(key) ==
    \/ ProviderKey(provider, StorageKey(key)) \notin DOMAIN store
    \/ store[ProviderKey(provider, StorageKey(key))] = EmptyText

(* C16: fromStorage fails with the state-not-found OAuthStateError exactly
   when the storage holds no value under core_oauth_state:<key>: always for a
   missing entry, never for an entry that exists but is corrupt. *)
C16_NotFoundIffMissing ==
    last.op = "fromStorage"
    => (IsStateNotFound(last.result, last.arg.key) <=> HoldsNoValue(last.arg.key))

(* C17: fromStorage on an entry that is not parsable JSON fails with an
   OAuthStateError, not with a parse error or a plain Error, and builds no
   client. *)
C17_UnparsableIsStateError ==
    (/\ last.op = "fromStorage"
     /\ ProviderKey(provider, StorageKey(last.arg.key)) \in DOMAIN store
     /\ store[ProviderKey(provider, StorageKey(last.arg.key))] = GarbageText)
    => /\ last.result.kind = "throw"
       /\ last.result.error.name = "OAuthStateError"
       /\ LastClient = NoClient

----------------------------------------------------------------------------
(* Resolving the authorization server: OAuthDiscovery and OAuthConfig *)

Algorithms == {"oidc", "oauth2", "protected-resource"}

\* what assert.ok(..., "No authorization servers found") throws
NoServersFound == Error("AssertionError", <<"No authorization servers found">>)

\* no protected resource discovery was made
NoDiscovery == [kind |-> "pending"]

\* a variant that takes the last entry of authorization_servers
resolveAuthorizationServerUrl_LastEntry(issuer, algorithm, resourcePath, protectedResourceJwt, answer) ==
    IF algorithm = "protected-resource"
    THEN LET url == RequestUrl(issuer, resourcePath)
             discovery == getProtectedResourceDiscovery(issuer, resourcePath,
                              protectedResourceJwt, ResponseTo(url, answer))
         IN  [discovery |-> discovery, requested |-> url, result |->
              IF discovery.kind = "throw" THEN discovery
              ELSE IF ~(discovery.kind = "value"
                        /\ Len(discovery.value.authorization_servers.v) > 0)
                   THEN Throw(NoServersFound)
                   ELSE LET servers == discovery.value.authorization_servers.v IN
                        Value(ParseURL(<<servers[Len(servers)]>>))]
    ELSE [discovery |-> NoDiscovery, requested |-> <<>>, result |-> Value(toURL(issuer))]

\* OAuthDiscovery.resolveAuthorizationServerUrl: the discovery it made, the URL
\* it sent a request to (<<>>: none) and what it returned or threw
resolveAuthorizationServerUrl(issuer, algorithm, resourcePath, protectedResourceJwt, answer) ==
    IF algorithm = "protected-resource"
    THEN LET url == RequestUrl(issuer, resourcePath)
             discovery == getProtectedResourceDiscovery(issuer, resourcePath,
                              protectedResourceJwt, ResponseTo(url, answer))
         IN  [discovery |-> discovery, requested |-> url, result |->
              IF discovery.kind = "throw" THEN discovery
              ELSE IF ~(discovery.kind = "value"
                        /\ Len(discovery.value.authorization_servers.v) > 0)
                   THEN Throw(NoServersFound)
                   ELSE Value(ParseURL(<<discovery.value.authorization_servers.v[1]>>))]
    ELSE [discovery |-> NoDiscovery, requested |-> <<>>, result |-> Value(toURL(issuer))]

\* issuer.toString()
IssuerToString(issuer) == IF issuer.kind = "URL" THEN Href(issuer.url) ELSE issuer.str

\* LRUCache.set(key, value)
CacheSet(lru, key, value) == [k \in (DOMAIN lru) \cup {key} |-> IF k = key THEN value ELSE lru[k]]

\* OAuthConfig.getProtectedResourceDiscovery: what it returned or threw (a JSON
\* value, JsonNull for null), the cache and the caller's issuer as it left
\* them, and the URL it sent a request to (<<>>: none)
OAuthConfigProtectedResourceDiscovery(issuer, lru, answer) ==
    IF IssuerToString(issuer) \in DOMAIN lru
    THEN [discovery |-> Value(lru[IssuerToString(issuer)]), cache |-> lru,
          issuer |-> issuer, requested |-> <<>>]
    ELSE LET after == IssuerAfterRequest(issuer, <<>>)
             url == RequestUrl(issuer, <<>>)
             got == kyGet(ResponseTo(url, answer))
         IN  IF got.kind = "throw"
             THEN [discovery |-> got, cache |-> lru, issuer |-> after, requested |-> url]
             ELSE IF ~got.value.ok
             THEN [discovery |-> Value(JsonNull), cache |-> lru, issuer |-> after,
                   requested |-> url]
             ELSE IF IncludesJwtMediaType(got.value.contentType)
             THEN [discovery |-> Throw(Error("Error",
                                   <<PROTECTED_RESOURCE_DISCOVERY_JWT_MEDIA_TYPE, " is not supported">>)),
                   cache |-> lru, issuer |-> after, requested |-> url]
             ELSE LET json == BodyAsJson(got.value.body) IN
                  IF json.kind = "throw"
                  THEN [discovery |-> Throw(Error("Error",
                                        <<"Invalid protected resource discovery: ", "[object Response]">>)),
                        cache |-> lru, issuer |-> after, requested |-> url]
                  ELSE [discovery |-> json,
                        cache |-> CacheSet(lru, IssuerToString(after), json.value),
                        issuer |-> after, requested |-> url]

\* the first lines of OAuthConfig.discover and OAuthConfig.dcr: the URL that
\* discovery or registration is then run against
OAuthConfigServerUrl(issuer, algorithm, lru, answer) ==
    IF algorithm = "protected-resource"
    THEN LET d == OAuthConfigProtectedResourceDiscovery(issuer, lru, answer) IN
         [discovery |-> d.discovery, cache |-> d.cache, requested |-> d.requested, url |->
          IF d.discovery.kind = "throw" THEN d.discovery
          ELSE IF d.discovery.value.t = "object"
               THEN IF ~Has(d.discovery.value.o, "authorization_servers")
                    THEN Throw(Error("TypeError", <<"undefined is not an object">>))
                    ELSE IF ~(Len(d.discovery.value.o.authorization_servers.v) > 0)
                         THEN Throw(NoServersFound)
                         ELSE Value(ParseURL(<<d.discovery.value.o.authorization_servers.v[1]>>))
               ELSE Value(toURL(d.issuer))]
    ELSE [discovery |-> NoDiscovery, cache |-> lru, requested |-> <<>>,
          url |-> Value(toURL(issuer))]

\* client.discovery(url, clientId, clientSecret, undefined, {algorithm}): the
\* Configuration of the server at url
clientDiscovery(url, algorithm) ==
    Value([configurationOf |-> Href(url), by |-> "discovery", algorithm |-> algorithm])

\* client.dynamicClientRegistration(url, {})
dynamicClientRegistration(url) ==
    Value([configurationOf |-> Href(url), by |-> "registration", algorithm |-> "oidc"])

\* OAuthConfig.discover(issuer, {algorithm, ...})
OAuthConfigDiscover(issuer, algorithm, lru, answer) ==
    LET r == OAuthConfigServerUrl(issuer, algorithm, lru, answer) IN
    [discovery |-> r.discovery, cache |-> r.cache, requested |-> r.requested, result |->
     IF r.url.kind = "throw" THEN r.url
     ELSE clientDiscovery(r.url.value,
              IF algorithm = "protected-resource" THEN "oauth2" ELSE algorithm)]

\* OAuthConfig.dcr(issuer, {algorithm, ...})
OAuthConfigDcr(issuer, algorithm, lru, answer) ==
    LET r == OAuthConfigServerUrl(issuer, algorithm, lru, answer) IN
    [discovery |-> r.discovery, cache |-> r.cache, requested |-> r.requested, result |->
     IF r.url.kind = "throw" THEN r.url ELSE dynamicClientRegistration(r.url.value)]

\* the documents the resource server of these runs may hold
ResolveDocuments ==
    { Field("resource", Str(<<ResourceOrigin>>)) }
    \cup { Field("resource", Str(<<ResourceOrigin>>)) @@ Field("authorization_servers", l) :
             l \in ServerLists(PlainServerNames) \cup ServerLists(SignedServerNames) }

ResolveAnswers ==
    { NoAnswer,
      Answer(TRUE, JsonContentType, GarbageBody),
      Answer(TRUE, JsonContentType, JsonBody(JsonNull)),
      Answer(TRUE, JwtContentType,
             JwtBody(Jwt("k1", Field("resource", Str(<<ResourceOrigin>>))
                 @@ Field("authorization_servers", Arr(SubSeq(SignedServerNames, 1, MaxServers)))
                 @@ Field("iss", Str(<<"iss1">>))))) }
    \cup { Answer(TRUE, JsonContentType, JsonBody(JsonObject(d))) : d \in ResolveDocuments }

ResolveOptions == {NoJwt, JwksLocal}

\* identifiers with and without a trailing slash, as strings and as URL objects
IdentifierStrings ==
    { <<ResourceOrigin>>, <<ResourceOrigin, "/">>,
      <<ResourceOrigin, "/", "api">>, <<ResourceOrigin, "/", "api", "/">>,
      <<ResourceOrigin, "/", "v1", "/", "api">>, <<ResourceOrigin, "/", "v1", "/", "api", "/">> }

Identifiers ==
    { [kind |-> "string", str |-> i] : i \in IdentifierStrings }
    \cup { [kind |-> "URL", url |-> ParseURL(i)] : i \in IdentifierStrings }

\* the variables these runs leave alone
ridle == <<dpc, issuerArg, issuerNow, pathArg, optsArg, response, reqId, provider, appConfig,
           store, pending, rejected, clients, urls, exchanges, rand, fs, backends>>

\* the resource server gets another document, or loses the one it had
ServerChanges ==
    /\ \E answer \in ResolveAnswers \ {serverNow} : serverNow' = answer
    /\ last' = Op("serverChanges", 0, <<>>, Null)
    /\ outcome' = NoDiscovery
    /\ reqUrl' = <<>>
    /\ UNCHANGED <<cache, ridle>>

Call(issuer, algorithm, jwt) == [issuer |-> issuer, algorithm |-> algorithm, jwt |-> jwt]

\* OAuthDiscovery.getProtectedResourceDiscovery(issuer, undefined, options)
DiscoverProtectedResource ==
    /\ \E issuer \in Issuers, jwt \in ResolveOptions :
          LET url == RequestUrl(issuer, <<>>)
              r == getProtectedResourceDiscovery(issuer, <<>>, jwt, ResponseTo(url, serverNow))
          IN  /\ last' = Op("getProtectedResourceDiscovery", 0,
                            Call(issuer, "protected-resource", jwt), r)
              /\ outcome' = r
              /\ reqUrl' = url
    /\ UNCHANGED <<serverNow, cache, ridle>>

\* OAuthDiscovery.resolveAuthorizationServerUrl(issuer, algorithm, undefined, jwt)
ResolveAuthorizationServerUrl ==
    /\ \E issuer \in Issuers, algorithm \in Algorithms, jwt \in ResolveOptions :
          LET r == resolveAuthorizationServerUrl(issuer, algorithm, <<>>, jwt, serverNow) IN
          /\ last' = Op("resolveAuthorizationServerUrl", 0, Call(issuer, algorithm, jwt),
                        r.result)
          /\ outcome' = r.discovery
          /\ reqUrl' = r.requested
    /\ UNCHANGED <<serverNow, cache, ridle>>

\* OAuthConfig.discover(issuer, {algorithm, clientId, redirectUri})
Discover ==
    /\ \E issuer \in Issuers, algorithm \in Algorithms :
          LET r == OAuthConfigDiscover(issuer, algorithm, cache, serverNow) IN
          /\ last' = Op("discover", 0, Call(issuer, algorithm, NoJwt), r.result)
          /\ outcome' = r.discovery
          /\ reqUrl' = r.requested
          /\ cache' = r.cache
    /\ UNCHANGED <<serverNow, ridle>>

\* OAuthConfig.dcr(issuer, {algorithm, redirectUri})
Dcr ==
    /\ \E issuer \in Issuers, algorithm \in Algorithms :
          LET r == OAuthConfigDcr(issuer, algorithm, cache, serverNow) IN
          /\ last' = Op("dcr", 0, Call(issuer, algorithm, NoJwt), r.result)
          /\ outcome' = r.discovery
          /\ reqUrl' = r.requested
          /\ cache' = r.cache
    /\ UNCHANGED <<serverNow, ridle>>

\* requestResourceIdFromIssuer(issuer, resourcePath) on its own
RequestResourceIdFromIssuer ==
    /\ \E issuer \in Identifiers, resourcePath \in ResourcePaths :
          last' = Op("requestResourceIdFromIssuer", 0,
                     [issuer |-> issuer, resourcePath |-> resourcePath],
                     Value(requestResourceIdFromIssuer(issuer, resourcePath)))
    /\ outcome' = NoDiscovery
    /\ reqUrl' = <<>>
    /\ UNCHANGED <<serverNow, cache, ridle>>

ResolveNext ==
    \/ ServerChanges
    \/ DiscoverProtectedResource
    \/ ResolveAuthorizationServerUrl
    \/ Discover
    \/ Dcr
    \/ RequestResourceIdFromIssuer

\* a resource server in any of its conditions, and nothing cached yet
ResolveInit ==
    /\ serverNow \in ResolveAnswers
    /\ cache = EmptyCache
    /\ last = Op("none", 0, <<>>, Null)
    /\ outcome = NoDiscovery
    /\ reqUrl = <<>>
    /\ backends = NoBackends
    /\ reqId = <<>>
    /\ dpc = "idle"
    /\ issuerArg = [kind |-> "string", str |-> <<ResourceOrigin>>]
    /\ issuerNow = issuerArg
    /\ pathArg = <<>>
    /\ optsArg = NoJwt
    /\ response = [ok |-> FALSE, contentType |-> <<>>, body |-> GarbageBody, url |-> <<>>]
    /\ provider = "none"
    /\ appConfig = CHOOSE c \in Configs : c.supportsPKCE
    /\ store = EmptyStore
    /\ pending = {}
    /\ rejected = {}
    /\ clients = [i \in Slots |-> NoClient]
    /\ urls = {}
    /\ exchanges = [s \in StateTokens |-> 0]
    /\ rand = 0
    /\ fs = NoState

SpecResolve == ResolveInit /\ [][ResolveNext]_vars

----------------------------------------------------------------------------
(* Resolving the authorization server: what the claims speak of *)

\* the same identifier spelled the other way: without its trailing slash when
\* it has one, with one when it has none
OtherSpelling(issuer) ==
    IF issuer.kind = "string"
    THEN [issuer EXCEPT !.str =
             IF Len(@) > 1 /\ @[Len(@)] = "/" THEN SubSeq(@, 1, Len(@) - 1) ELSE @ \o <<"/">>]
    ELSE [issuer EXCEPT !.url.pathname =
             IF @ = <<"/">> THEN @
             ELSE IF @[Len(@)] = "/" THEN SubSeq(@, 1, Len(@) - 1) ELSE @ \o <<"/">>]

(* C25: requestResourceIdFromIssuer gives the same id each time it is applied
   to the same identifier and path; an identifier gives the same id with and
   without its trailing slash; and the id does not end in "/" when no path is
   given. *)
C25_TrailingSlashInsensitive ==
    last.op = "requestResourceIdFromIssuer"
    => LET id == last.result.value IN
       /\ id = requestResourceIdFromIssuer(last.arg.issuer, last.arg.resourcePath)
       /\ id = requestResourceIdFromIssuer(OtherSpelling(last.arg.issuer),
                                           last.arg.resourcePath)
       /\ last.arg.resourcePath = <<>> => id[Len(id)] # "/"

\* reached: an identifier with a path and a trailing slash, no resourcePath,
\* and the id is the identifier without the slash
C25_Witness ==
    /\ last.op = "requestResourceIdFromIssuer"
    /\ last.arg.issuer = [kind |-> "string", str |-> <<ResourceOrigin, "/", "api", "/">>]
    /\ last.arg.resourcePath = <<>>
    /\ last.result = Value(<<ResourceOrigin, "/", "api">>)

\* the protected resource discovery of the last operation came back without
\* an authorization server
NoServerDiscovered ==
    \/ outcome.kind = "null"
    \/ (outcome.kind = "value" /\ Len(outcome.value.authorization_servers.v) = 0)

(* C27: resolveAuthorizationServerUrl with algorithm protected-resource fails
   with the assertion error "No authorization servers found" when the
   discovery result is null or lists no authorization server, and otherwise
   returns the entry at index 0 of authorization_servers as a URL, never
   another entry; with algorithm oidc or oauth2 it returns its input as a URL
   and sends no request. *)
C27_FirstServerOrAssertion ==
    last.op = "resolveAuthorizationServerUrl"
    => IF last.arg.algorithm = "protected-resource"
       THEN /\ NoServerDiscovered => last.result = Throw(NoServersFound)
            /\ (outcome.kind = "value" /\ ~NoServerDiscovered)
                 => last.result = Value(ParseURL(<<outcome.value.authorization_servers.v[1]>>))
       ELSE /\ last.result = Value(toURL(last.arg.issuer))
            /\ reqUrl = <<>>
            /\ outcome = NoDiscovery

\* reached: a discovery result that lists more than one authorization server,
\* and the first of them was returned
C27_Witness ==
    /\ last.op = "resolveAuthorizationServerUrl"
    /\ last.arg.algorithm = "protected-resource"
    /\ outcome.kind = "value"
    /\ Len(outcome.value.authorization_servers.v) > 1
    /\ last.result = Value(ParseURL(<<outcome.value.authorization_servers.v[1]>>))

(* C28: in OAuthConfig.discover and OAuthConfig.dcr with algorithm
   protected-resource, a null protected resource discovery result makes the
   call fail with "No authorization servers found"; discovery or registration
   is not run against the issuer as a fallback. *)
C28_NoSilentFallback ==
    (/\ last.op \in {"discover", "dcr"}
     /\ last.arg.algorithm = "protected-resource"
     /\ outcome = Value(JsonNull))
    => last.result = Throw(NoServersFound)

\* what the last operation's discovery would be if it came from the server's
\* present answer alone
DiscoveryFromServerAlone ==
    IF last.op = "getProtectedResourceDiscovery"
    THEN getProtectedResourceDiscovery(last.arg.issuer, <<>>, last.arg.jwt,
             ResponseTo(RequestUrl(last.arg.issuer, <<>>), serverNow))
    ELSE OAuthConfigProtectedResourceDiscovery(last.arg.issuer, EmptyCache, serverNow).discovery

(* C29: protected resource discovery keeps no state between calls: each call
   of OAuthDiscovery.getProtectedResourceDiscovery and of the discovery helper
   of OAuthConfig.discover and OAuthConfig.dcr sends its own request, and its
   result is what the server's answer to that request makes it. *)
C29_NoStateBetweenCalls ==
    (/\ last.op \in {"getProtectedResourceDiscovery", "discover", "dcr"}
     /\ last.arg.algorithm = "protected-resource")
    => (/\ reqUrl # <<>>
        /\ outcome = DiscoveryFromServerAlone)

----------------------------------------------------------------------------
(* The storage providers side by side: MemoryStorageProvider and
   RedisStorageProvider under the StorageProvider interface *)

AssertionError(message) == Error("AssertionError", message)

\* the options argument of new RedisStorageProvider(redis, options): given is
\* FALSE when the argument is left out; <<>> stands for a field that is left
\* out (or is the empty string); a delimiter is its characters
RedisOptions(given, prefix, delimiter) ==
    [given |-> given, prefix |-> prefix, delimiter |-> delimiter]

DEFAULT_PREFIX == <<"ez-oauth">>
DEFAULT_DELIMITER == <<":">>

\* the constructor, lines 22-35: the default is the default of the whole
\* options parameter
NewRedisStorageProvider(options) ==
    LET o == IF options.given
             THEN [prefix |-> options.prefix, delimiter |-> options.delimiter]
             ELSE [prefix |-> DEFAULT_PREFIX, delimiter |-> DEFAULT_DELIMITER]
    IN  IF o.prefix = <<>> THEN Throw(AssertionError(<<"prefix is required">>))
        ELSE IF o.delimiter = <<>> THEN Throw(AssertionError(<<"delimiter is required">>))
        ELSE IF Len(o.delimiter) # 1
             THEN Throw(AssertionError(<<"delimiter must be a single character">>))
        ELSE Value(o)

\* createKey: `${prefix}${delimiter}${key}`
createKey(o, key) == o.prefix \o o.delimiter \o key

\* the pattern `${prefix}*` and the keys a Redis KEYS command matches with it
PrefixPattern(o) == o.prefix \o <<"*">>
GlobMatches(o, raw) == Len(raw) >= Len(o.prefix) /\ SubSeq(raw, 1, Len(o.prefix)) = o.prefix

EmptyMap == [k \in {} |-> <<>>]
MapSet(m, key, value) == [k \in (DOMAIN m) \cup {key} |-> IF k = key THEN value ELSE m[k]]
MapDelete(m, key) == [k \in (DOMAIN m) \ {key} |-> m[k]]

\* MemoryStorageProvider: cache is a Map
MemorySave(m, key, value) == MapSet(m, key, value)
MemoryGet(m, key) == IF key \in DOMAIN m /\ m[key] # <<>> THEN Value(m[key]) ELSE Null
MemoryHas(m, key) == key \in DOMAIN m
MemoryDelete(m, key) == MapDelete(m, key)
MemoryClear(m) == EmptyMap
MemoryKeys(m) == DOMAIN m

\* RedisStorageProvider over the database db, every command awaited
RedisSave(o, db, key, value) == MapSet(db, createKey(o, key), value)
RedisGet(o, db, key) ==
    IF createKey(o, key) \in DOMAIN db THEN Value(db[createKey(o, key)]) ELSE Null
RedisHas(o, db, key) == createKey(o, key) \in DOMAIN db
RedisDelete(o, db, key) == MapDelete(db, createKey(o, key))
\* clear: DEL takes the names of keys, so the one key `${prefix}*` is removed
RedisClear(o, db) == MapDelete(db, PrefixPattern(o))
\* keys: KEYS answers with the keys as the database names them
RedisKeys(o, db) == {r \in DOMAIN db : GlobMatches(o, r)}

\* the keys and values callers use; every value is non-empty
StorageKeys == {<<"a">>, <<"b">>}
StorageValues == {<<"v1">>, <<"v2">>}

RedisOptionsArgs ==
    {RedisOptions(FALSE, <<>>, <<>>)}
    \cup {RedisOptions(TRUE, p, d) : p \in {<<>>, <<"app">>},
                                     d \in {<<>>, <<"/">>, <<":", ":">>}}

\* the variables these runs leave alone
sidle == <<dvars, provider, appConfig, store, pending, rejected, clients, urls, exchanges,
           rand, fs>>

\* new MemoryStorageProvider() and new RedisStorageProvider(redis, options)
\* over an empty database
NewProviders ==
    /\ ~backends.made
    /\ \E options \in RedisOptionsArgs :
          LET r == NewRedisStorageProvider(options) IN
          /\ backends' = IF r.kind = "value"
                         THEN [made |-> TRUE, options |-> r.value, mem |-> EmptyMap,
                               db |-> EmptyMap]
                         ELSE backends
          /\ last' = Op("new RedisStorageProvider", 0, options, r)
    /\ UNCHANGED sidle

\* save(key, value) on both providers
SaveKey ==
    /\ backends.made
    /\ \E key \in StorageKeys, value \in StorageValues :
          /\ backends' = [backends EXCEPT
                 !.mem = MemorySave(@, key, value),
                 !.db = RedisSave(backends.options, @, key, value)]
          /\ last' = Op("save", 0, [key |-> key, value |-> value], Null)
    /\ UNCHANGED sidle

\* delete(key) on both providers
DeleteKey ==
    /\ backends.made
    /\ \E key \in StorageKeys :
          /\ backends' = [backends EXCEPT
                 !.mem = MemoryDelete(@, key),
                 !.db = RedisDelete(backends.options, @, key)]
          /\ last' = Op("delete", 0, key, Null)
    /\ UNCHANGED sidle

\* clear() on both providers; the keys that were there are remembered
ClearAll ==
    /\ backends.made
    /\ backends' = [backends EXCEPT
           !.mem = MemoryClear(@),
           !.db = RedisClear(backends.options, @)]
    /\ last' = Op("clear", 0, MemoryKeys(backends.mem), Null)
    /\ UNCHANGED sidle

\* get(key) and has(key) on both providers
GetKey ==
    /\ backends.made
    /\ \E key \in StorageKeys :
          last' = Op("get", 0, key,
                     [memory |-> MemoryGet(backends.mem, key),
                      redis |-> RedisGet(backends.options, backends.db, key)])
    /\ UNCHANGED <<sidle, backends>>

HasKey ==
    /\ backends.made
    /\ \E key \in StorageKeys :
          last' = Op("has", 0, key,
                     [memory |-> MemoryHas(backends.mem, key),
                      redis |-> RedisHas(backends.options, backends.db, key)])
    /\ UNCHANGED <<sidle, backends>>

\* keys() on both providers
ListKeys ==
    /\ backends.made
    /\ last' = Op("keys", 0, <<>>,
                  [memory |-> MemoryKeys(backends.mem),
                   redis |-> RedisKeys(backends.options, backends.db)])
    /\ UNCHANGED <<sidle, backends>>

StorageNext ==
    NewProviders \/ SaveKey \/ DeleteKey \/ ClearAll \/ GetKey \/ HasKey \/ ListKeys

StorageInit ==
    /\ backends = NoBackends
    /\ provider = "none"
    /\ appConfig \in {c \in Configs : c.supportsPKCE}
    /\ store = EmptyStore
    /\ pending = {}
    /\ rejected = {}
    /\ clients = [i \in Slots |-> NoClient]
    /\ urls = {}
    /\ exchanges = [s \in StateTokens |-> 0]
    /\ rand = 0
    /\ last = Op("none", 0, <<>>, Null)
    /\ fs = NoState
    /\ dpc = "idle"
    /\ issuerArg = [kind |-> "string", str |-> <<ResourceOrigin>>]
    /\ issuerNow = issuerArg
    /\ pathArg = <<>>
    /\ optsArg = NoJwt
    /\ response = NoAnswer
    /\ reqUrl = <<>>
    /\ serverNow = NoAnswer
    /\ cache = EmptyCache
    /\ reqId = <<>>
    /\ outcome = [kind |-> "pending"]

SpecStorage == StorageInit /\ [][StorageNext]_vars

(* C33: the options of RedisStorageProvider default field by field: a prefix
   that is left out is "ez-oauth" and a delimiter that is left out is ":",
   so a construction whose options set only one of the two, or neither,
   succeeds and uses the default for what is left out. *)
C33_OptionDefaults ==
    (/\ last.op = "new RedisStorageProvider"
     /\ last.arg.delimiter = <<>> \/ Len(last.arg.delimiter) = 1)
    => /\ last.result.kind = "value"
       /\ last.result.value.prefix
            = (IF last.arg.prefix = <<>> THEN DEFAULT_PREFIX ELSE last.arg.prefix)
       /\ last.result.value.delimiter
            = (IF last.arg.delimiter = <<>> THEN DEFAULT_DELIMITER ELSE last.arg.delimiter)

(* C39: under the StorageProvider interface RedisStorageProvider behaves as
   MemoryStorageProvider does: after any sequence of save, delete and clear
   with non-empty values, get and has of the two agree for every key, every
   key that keys() returns is a key that has() knows and whose get() is the
   saved value, and after clear() no key saved before remains. *)
C39_RedisRefinesMemory ==
    backends.made
    => LET o == backends.options
           db == backends.db
           m == backends.mem
       IN  /\ \A k \in StorageKeys :
                 /\ RedisGet(o, db, k) = MemoryGet(m, k)
                 /\ RedisHas(o, db, k) = MemoryHas(m, k)
                 /\ RedisHas(o, db, k) <=> (RedisGet(o, db, k) # Null)
           /\ \A k \in RedisKeys(o, db) :
                 /\ RedisHas(o, db, k)
                 /\ k \in DOMAIN m
                 /\ RedisGet(o, db, k) = Value(m[k])
           /\ last.op = "clear" => \A k \in last.arg : ~RedisHas(o, db, k)

====
